---- MODULE Spec2Model ----
(***************************************************************************)
(* Model of clix's sandbox provisioning and invocation layer:              *)
(*   ChrootSandbox.Run, prepareRootFS, untar      (sandbox_chroot.go)      *)
(*   DockerSandbox.Run, buildDockerArgs, getImageSHA, resolveMounts,       *)
(*   findGitRoot                                   (sandbox_docker.go)     *)
(*   main                                          (main.go)               *)
(*                                                                         *)
(* Strings are sequences of atoms.  An atom is a fixed piece of text that  *)
(* is either exactly "/" or contains no "/" (a letter, "..", ".", "~",     *)
(* "$", "{cacheDir}", ...), so that the Go string functions used by the    *)
(* code (strings.HasPrefix, strings.Contains, strings.ReplaceAll,          *)
(* filepath.Join, filepath.Clean, filepath.Dir, fmt.Sprintf) are computed  *)
(* on the text and not on a summary of it.                                 *)
(***************************************************************************)
EXTENDS Integers, Sequences, FiniteSets, TLC

\* ------------------------------------------------------------------------
\* Bounds of the model
\* ------------------------------------------------------------------------
\* longest tar stream exported from a pulled image
MaxEntries == 2
\* how often a driver invokes the release function returned by prepareRootFS
MaxRelease == 2
\* the longest mount list resolveMounts is called on directly
MaxMounts == 2
\* how often buildImage is called for one script
MaxBuilds == 2
MaxRuns == 2
MaxOut == 3

\* ------------------------------------------------------------------------
\* Strings
\* ------------------------------------------------------------------------
SLASH == "/"
EmptyStr == << >>

\* strings.HasPrefix(s, p)
HasPrefix(s, p) ==
    /\ Len(p) <= Len(s)
    /\ SubSeq(s, 1, Len(p)) = p

\* strings.Contains(s, sub)
Contains(s, sub) ==
    \E i \in 1..(Len(s) + 1) :
        /\ i + Len(sub) - 1 <= Len(s)
        /\ SubSeq(s, i, i + Len(sub) - 1) = sub

\* strings.ReplaceAll(s, old, new) for a non-empty old: leftmost matches,
\* non-overlapping, scanning left to right
RECURSIVE ReplaceAll(_, _, _)
ReplaceAll(s, old, new) ==
    IF Len(s) < Len(old) THEN s
    ELSE IF SubSeq(s, 1, Len(old)) = old
         THEN new \o ReplaceAll(SubSeq(s, Len(old) + 1, Len(s)), old, new)
         ELSE <<Head(s)>> \o ReplaceAll(Tail(s), old, new)

\* the components of a path: the maximal runs of atoms between separators
\* (empty components included, as strings.Split(s, "/") yields them)
RECURSIVE SplitPath(_)
SplitPath(s) ==
    IF \A i \in 1..Len(s) : s[i] # SLASH THEN <<s>>
    ELSE LET k == CHOOSE i \in 1..Len(s) :
                      /\ s[i] = SLASH
                      /\ \A j \in 1..(i - 1) : s[j] # SLASH
         IN  <<SubSeq(s, 1, k - 1)>> \o SplitPath(SubSeq(s, k + 1, Len(s)))

\* components joined by separators
RECURSIVE JoinComps(_)
JoinComps(cs) ==
    IF cs = << >> THEN << >>
    ELSE IF Len(cs) = 1 THEN cs[1]
    ELSE cs[1] \o <<SLASH>> \o JoinComps(Tail(cs))

\* the lexical processing of filepath.Clean: drop empty and "." components,
\* let ".." cancel the component before it, drop ".." at the root
RECURSIVE CleanComps(_, _, _)
CleanComps(cs, out, rooted) ==
    IF cs = << >> THEN out
    ELSE LET c == Head(cs) IN
         IF c = << >> \/ c = <<".">> THEN CleanComps(Tail(cs), out, rooted)
         ELSE IF c = <<"..">>
              THEN IF out # << >> /\ out[Len(out)] # <<"..">>
                   THEN CleanComps(Tail(cs), SubSeq(out, 1, Len(out) - 1), rooted)
                   ELSE IF rooted THEN CleanComps(Tail(cs), out, rooted)
                        ELSE CleanComps(Tail(cs), Append(out, c), rooted)
              ELSE CleanComps(Tail(cs), Append(out, c), rooted)

\* the text filepath.Clean returns for the cleaned components
CleanText(rooted, body) ==
    IF rooted THEN <<SLASH>> \o body
    ELSE IF body = << >> THEN <<".">> ELSE body

\* filepath.Clean(p)
Clean(p) ==
    IF p = << >> THEN <<".">>
    ELSE CleanText(p[1] = SLASH,
                   JoinComps(CleanComps(SplitPath(p), << >>, p[1] = SLASH)))

\* filepath.Join(a, b): empty elements are ignored, the rest is joined with
\* separators and cleaned; all elements empty gives the empty string
Join(a, b) ==
    IF a = << >> /\ b = << >> THEN << >>
    ELSE IF a = << >> THEN Clean(b)
    ELSE IF b = << >> THEN Clean(a)
    ELSE Clean(a \o <<SLASH>> \o b)

\* filepath.Dir(p): everything before the last separator, cleaned
Dir(p) ==
    LET idx == {i \in 1..Len(p) : p[i] = SLASH}
    IN  IF idx = {} THEN <<".">>
        ELSE LET k == CHOOSE i \in idx : \A j \in idx : j <= i
             IN  Clean(SubSeq(p, 1, k))

\* the non-empty components of a cleaned absolute path
Comps(p) == SelectSeq(SplitPath(p), LAMBDA c : c # << >>)

\* p is d itself or lies below d, by path components
Within(p, d) == HasPrefix(Comps(p), Comps(d))

\* p and all its ancestors up to the root
AncestorsOrSelf(p) ==
    { <<SLASH>> \o JoinComps(SubSeq(Comps(p), 1, n)) : n \in 0..Len(Comps(p)) }

\* ------------------------------------------------------------------------
\* The disk: a set of [path, kind, link] with kind "dir", "file", "symlink";
\* paths are absolute and clean, link is the target text of a symlink
\* ------------------------------------------------------------------------
ROOT == <<SLASH>>
\* the directory os.MkdirTemp("", "clix-chroot-*") creates, below os.TempDir()
TmpParent == <<SLASH, "t">>
TmpDir == <<SLASH, "t", SLASH, "d">>
\* the name os.MkdirTemp picks in the n-th run: one that is not taken
TmpDirOf(n) == IF n = 1 THEN TmpDir ELSE <<SLASH, "t", SLASH, "e", ToString(n)>>
\* an existing local directory with one file in it, and an existing plain file
LocalDir == <<SLASH, "r">>
LocalDirFile == <<SLASH, "r", SLASH, "b">>
LocalFile == <<SLASH, "f">>
\* symlink hops the kernel follows before giving up (ELOOP); the archives of
\* the model hold at most MaxEntries links
MaxHops == 3

DirAt(p) == [path |-> p, kind |-> "dir", link |-> EmptyStr]
FileAt(p) == [path |-> p, kind |-> "file", link |-> EmptyStr]
LinkAt(p, t) == [path |-> p, kind |-> "symlink", link |-> t]

InitialDisk ==
    { DirAt(ROOT), DirAt(TmpParent), DirAt(LocalDir), FileAt(LocalDirFile),
      FileAt(LocalFile) }

Exists(fsys, p) == \E e \in fsys : e.path = p
EntryAt(fsys, p) == CHOOSE e \in fsys : e.path = p
KindAt(fsys, p) == IF Exists(fsys, p) THEN EntryAt(fsys, p).kind ELSE "none"

\* path resolution as the kernel does it for the system calls behind os.*:
\* walk the components from the root, replace a symbolic link by its target
\* (relative targets start at the link's directory), ".." steps to the parent
\* of the directory reached
\* where a link found in directory dir points: absolute targets as they
\* are, relative ones from the link's directory
LinkTarget(dir, tgt) ==
    IF tgt # << >> /\ tgt[1] = SLASH THEN tgt ELSE dir \o <<SLASH>> \o tgt

RECURSIVE Walk(_, _, _, _, _)
RECURSIVE WalkStep(_, _, _, _, _, _)
Walk(fsys, done, rest, followLast, hops) ==
    IF rest = << >> THEN [ok |-> TRUE, path |-> done]
    ELSE WalkStep(fsys, done, rest, followLast, hops, Join(done, rest[1]))

\* one component further: next is the path of the component reached
WalkStep(fsys, done, rest, followLast, hops, next) ==
    IF KindAt(fsys, next) = "symlink" /\ (Len(rest) > 1 \/ followLast)
    THEN IF hops = 0 THEN [ok |-> FALSE, path |-> next]
         ELSE Walk(fsys, ROOT,
                   Comps(LinkTarget(done, EntryAt(fsys, next).link)) \o Tail(rest),
                   followLast, hops - 1)
    ELSE Walk(fsys, next, Tail(rest), followLast, hops)

RealPath(fsys, p) == Walk(fsys, ROOT, Comps(p), TRUE, MaxHops)

FsResult(o, fsys, w) == [ok |-> o, fs |-> fsys, writes |-> w]

\* the directories MkdirAll has to make for the real path
MissingDirs(fsys, real) == { a \in AncestorsOrSelf(real) : ~Exists(fsys, a) }

\* MkdirAll once the path is resolved to r
MkdirAllAt(fsys, p, r) ==
    IF \/ ~r.ok
       \/ \E a \in AncestorsOrSelf(r.path) : KindAt(fsys, a) \in {"file", "symlink"}
       \/ KindAt(fsys, p) = "symlink" /\ KindAt(fsys, r.path) = "none"
    THEN FsResult(FALSE, fsys, {})
    ELSE FsResult(TRUE, fsys \cup {DirAt(a) : a \in MissingDirs(fsys, r.path)},
                  MissingDirs(fsys, r.path))

\* os.MkdirAll(p, 0755): nil when p is a directory, an error when p or one
\* of its ancestors is not a directory (a dangling link included), else the
\* missing directories are created
MkdirAll(fsys, p) == MkdirAllAt(fsys, p, RealPath(fsys, p))

\* Create once the path is resolved to r
CreateAt(fsys, r) ==
    IF ~r.ok \/ KindAt(fsys, Dir(r.path)) # "dir" \/ KindAt(fsys, r.path) = "dir"
    THEN FsResult(FALSE, fsys, {})
    ELSE FsResult(TRUE, {e \in fsys : e.path # r.path} \cup {FileAt(r.path)}, {r.path})

\* os.Create(p): open with O_RDWR|O_CREATE|O_TRUNC, following links
Create(fsys, p) == CreateAt(fsys, RealPath(fsys, p))

\* Symlink once the path is resolved to r
SymlinkAt(fsys, target, r) ==
    IF ~r.ok \/ Exists(fsys, r.path) \/ KindAt(fsys, Dir(r.path)) # "dir"
    THEN FsResult(FALSE, fsys, {})
    ELSE FsResult(TRUE, fsys \cup {LinkAt(r.path, target)}, {r.path})

\* os.Symlink(target, p): the last component of p is not followed
Symlink(fsys, target, p) == SymlinkAt(fsys, target, Walk(fsys, ROOT, Comps(p), FALSE, MaxHops))

\* os.RemoveAll(p): p and everything below it; links are removed, not followed
RemoveAll(fsys, p) == { e \in fsys : ~Within(e.path, p) }

\* ------------------------------------------------------------------------
\* Tar streams
\* ------------------------------------------------------------------------
\* a tar header: recorded name, type flag, link target
Header(n, t, l) == [name |-> n, typeflag |-> t, linkname |-> l]
NoHeader == Header(EmptyStr, "nil", EmptyStr)

\* the headers the archives of the model are made of: plain entries, entries
\* that climb out of the destination ("../x", "../../e"), entries that climb
\* into a sibling whose name starts with the destination's name ("../d2/x"),
\* links that point out of the destination and entries that pass through them,
\* and entries of a type untar has no case for
Headers ==
    { Header(<<"x">>, "reg", EmptyStr),
      Header(<<"a", SLASH, "x">>, "reg", EmptyStr),
      Header(<<"a">>, "dir", EmptyStr),
      Header(<<".">>, "dir", EmptyStr),
      Header(<<"..", SLASH, "x">>, "reg", EmptyStr),
      Header(<<"..", SLASH, "x">>, "dir", EmptyStr),
      Header(<<"..", SLASH, "x">>, "symlink", LocalDir),
      Header(<<"..", SLASH, "x">>, "other", EmptyStr),
      Header(<<"..", SLASH, "..", SLASH, "e">>, "reg", EmptyStr),
      Header(<<"..", SLASH, "d", "2", SLASH, "x">>, "reg", EmptyStr),
      Header(<<"..", SLASH, "d", "2">>, "dir", EmptyStr),
      Header(<<"..", SLASH, "d", "2", SLASH, "l">>, "symlink", LocalDir),
      Header(<<"l">>, "symlink", LocalDir),
      Header(<<"l", SLASH, "x">>, "reg", EmptyStr),
      Header(<<"x">>, "other", EmptyStr) }

RECURSIVE SeqsUpTo(_, _)
SeqsUpTo(S, n) ==
    IF n = 0 THEN { << >> }
    ELSE LET shorter == SeqsUpTo(S, n - 1)
         IN  shorter \cup { Append(q, x) : q \in shorter, x \in S }

\* every tar stream an image may export
Archives == SeqsUpTo(Headers, MaxEntries)

\* the streams used where the script, the arguments and the backend vary too
FewArchives ==
    { << >>,
      << Header(<<"x">>, "reg", EmptyStr) >>,
      << Header(<<"a">>, "dir", EmptyStr), Header(<<"a", SLASH, "x">>, "reg", EmptyStr) >>,
      << Header(<<"..", SLASH, "x">>, "reg", EmptyStr) >> }

\* the I/O operations of one entry that the environment may fail
IOFailures(typeflag) ==
    CASE typeflag = "dir"     -> {"none", "mkdir"}
      [] typeflag = "reg"     -> {"none", "mkdir", "create", "copy", "close", "chmod"}
      [] typeflag = "symlink" -> {"none", "mkdir", "symlink"}
      [] OTHER                -> {"none"}

UntarResult(e, fsys, w, io) == [err |-> e, fs |-> fsys, writes |-> w, iofail |-> io]

\* the zip-slip test of untar
IllegalPath(path, dest) == ~HasPrefix(path, Clean(dest))

\* case tar.TypeDir, m being what os.MkdirAll(path, 0755) did
UntarDir(fsys, fail, m) ==
    IF fail = "mkdir" \/ ~m.ok
    THEN UntarResult("ExtractIO", fsys, {}, "mkdir")
    ELSE UntarResult("none", m.fs, m.writes, "none")

\* case tar.TypeReg after the parent directory is there, c being what
\* os.Create(path) did; the results of f.Close and os.Chmod are dropped
UntarRegCreated(fail, m, c) ==
    IF fail = "create" \/ ~c.ok
    THEN UntarResult("ExtractIO", m.fs, m.writes, "create")
    ELSE IF fail = "copy"
    THEN UntarResult("ExtractIO", c.fs, m.writes \cup c.writes, "copy")
    ELSE UntarResult("none", c.fs, m.writes \cup c.writes, fail)

\* case tar.TypeReg, m being what os.MkdirAll(filepath.Dir(path), 0755) did
UntarReg(fsys, path, fail, m) ==
    IF fail = "mkdir" \/ ~m.ok
    THEN UntarResult("ExtractIO", fsys, {}, "mkdir")
    ELSE UntarRegCreated(fail, m, Create(m.fs, path))

\* case tar.TypeSymlink after the parent directory is there, l being what
\* os.Symlink(header.Linkname, path) did
UntarSymlinked(fail, m, l) ==
    IF fail = "symlink" \/ ~l.ok
    THEN UntarResult("ExtractIO", m.fs, m.writes, "symlink")
    ELSE UntarResult("none", l.fs, m.writes \cup l.writes, "none")

\* case tar.TypeSymlink, m being what os.MkdirAll(filepath.Dir(path), 0755) did
UntarSymlink(fsys, path, linkname, fail, m) ==
    IF fail = "mkdir" \/ ~m.ok
    THEN UntarResult("ExtractIO", fsys, {}, "mkdir")
    ELSE UntarSymlinked(fail, m, Symlink(m.fs, linkname, path))

\* the switch on header.Typeflag
UntarSwitch(fsys, path, h, fail) ==
    CASE h.typeflag = "dir" -> UntarDir(fsys, fail, MkdirAll(fsys, path))
      [] h.typeflag = "reg" -> UntarReg(fsys, path, fail, MkdirAll(fsys, Dir(path)))
      [] h.typeflag = "symlink" ->
            UntarSymlink(fsys, path, h.linkname, fail, MkdirAll(fsys, Dir(path)))
      [] OTHER -> UntarResult("none", fsys, {}, "none")

\* the body of untar's loop for one header: what it returns ("none" to go
\* on with the next header), the disk afterwards, the real paths it created
\* or wrote, and the I/O operation that failed, if one did
UntarEntry(fsys, dest, h, fail) ==
    IF IllegalPath(Join(dest, h.name), dest)
    THEN UntarResult("PathTraversal", fsys, {}, "none")
    ELSE UntarSwitch(fsys, Join(dest, h.name), h, fail)

\* ------------------------------------------------------------------------
\* Scripts, arguments and the environment of a run
\* ------------------------------------------------------------------------
Mount(h, sp) == [hostPath |-> h, sandboxPath |-> sp]
EnvVar(n, v) == [name |-> n, value |-> v]
Script(img, ep, ms, es) == [image |-> img, entrypoint |-> ep, mounts |-> ms, env |-> es]

\* image references: a registry image that can be pulled and one that cannot
ImgOK == <<"hello">>
ImgBad == <<"nope">>
Images == { EmptyStr, LocalDir, LocalFile, ImgOK, ImgBad }
Pullable == { ImgOK }

\* os.Getwd()
Cwd == <<SLASH, "w">>

Entrypoints == { EmptyStr, <<SLASH, "h">> }
ArgLists == { << >>, << <<"p">> >>, << <<"p">>, <<"q">> >> }
EnvLists ==
    { << >>,
      << EnvVar(<<"K">>, <<"v">>) >>,
      << EnvVar(<<"K">>, <<"v">>), EnvVar(<<"J">>, EmptyStr) >> }

\* exit statuses of a child that ran, and what cmd.Run can report
ExitCodes == { 0, 1, 3 }
Outcomes ==
    { [kind |-> "exited", code |-> c] : c \in ExitCodes }
        \cup { [kind |-> "signaled", code |-> -1], [kind |-> "startfail", code |-> -1] }

NoChild == [path |-> EmptyStr, args |-> << >>, root |-> EmptyStr, dir |-> EmptyStr,
            outcome |-> "none", code |-> -1]

\* the release function returned by prepareRootFS
NilCleanup == [kind |-> "nil", dir |-> EmptyStr]
NoopCleanup == [kind |-> "noop", dir |-> EmptyStr]
RemoveAllCleanup(d) == [kind |-> "removeAll", dir |-> d]
ApplyCleanup(c, fsys) == IF c.kind = "removeAll" THEN RemoveAll(fsys, c.dir) ELSE fsys

VARIABLES
    script,      \* the Script handed to Run
    goCfg,       \* the script's go section (Script.Go)
    runs,        \* the number of the run under way
    shaOut,      \* what the image query printed, where getImageSHA is called alone
    args,        \* the user arguments
    isTerm,      \* isTerminal(stdin)
    sandbox,     \* the Sandbox variant: "docker" or "chroot"
    archive,     \* the tar stream crane.Export produces for the image
    pc,          \* where the main flow stands
    fs,          \* the disk
    tmpDir,      \* prepareRootFS: tmpDir
    realRoot,    \* prepareRootFS's first result
    cleanup,     \* prepareRootFS's second result
    prepErr,     \* prepareRootFS's third result
    deferred,    \* ChrootSandbox.Run: defer cleanup() has been executed
    ppc,         \* the export goroutine: "idle", "export", "writing", "done"
    pidx,        \* the next header the export goroutine writes
    pipe,        \* io.Pipe: the chunk offered by a blocked Write, the close state
    untarLog,    \* per header untar handled: what it did
    cmdArgs,     \* buildDockerArgs: cmdArgs
    imageSHA,    \* buildDockerArgs: imageSHA
    resolved,    \* resolveMounts: resolved
    midx,        \* resolveMounts: position of the range loop
    child,       \* the command handed to cmd.Run and how it ended
    calls,       \* the external operations performed so far, in order
    retErr,      \* the error Run returned ("none" for nil)
    exitStatus,  \* the exit status of the process, -1 while it runs
    releases,    \* how often the release function was invoked
    build,       \* the BuildConfig handed to buildImage
    remoteOut,   \* what `git ls-remote` prints for the repository
    store,       \* the tags in the local image store
    imageTag,    \* buildImage: imageTag
    built        \* per finished call of buildImage: what it returned and did

vars == << script, goCfg, runs, shaOut, args, isTerm, sandbox, archive, pc, fs, tmpDir, realRoot,
           cleanup, prepErr, deferred, ppc, pidx, pipe, untarLog, cmdArgs,
           imageSHA, resolved, midx, child, calls, retErr, exitStatus, releases,
           build, remoteOut, store, imageTag, built >>

inputVars == << script, goCfg, runs, shaOut, args, isTerm, sandbox, archive >>
prepVars == << tmpDir, realRoot, cleanup, prepErr >>
pipeVars == << ppc, pidx, pipe >>
dockerVars == << cmdArgs, imageSHA, resolved, midx >>
endVars == << retErr, exitStatus >>
buildVars == << build, remoteOut, store, imageTag, built >>

\* GoConfig; nil marks a script without a go section
GoConfig(r, v) == [nil |-> FALSE, run |-> r, version |-> v]
NilGo == [nil |-> TRUE, run |-> EmptyStr, version |-> EmptyStr]

BuildConfig(g, b, d) == [git |-> g, branch |-> b, dockerfile |-> d]

\* a run whose script has no build section
NoBuild ==
    /\ build = BuildConfig(EmptyStr, EmptyStr, EmptyStr)
    /\ remoteOut = EmptyStr
    /\ store = {}
    /\ imageTag = EmptyStr
    /\ built = << >>

OpenPipe == [buf |-> NoHeader, wclosed |-> "open"]

\* the locals of a run before its first statement
InitLocals ==
    /\ fs = InitialDisk \cup {DirAt(Cwd)}
    /\ tmpDir = EmptyStr
    /\ realRoot = EmptyStr
    /\ cleanup = NilCleanup
    /\ prepErr = "none"
    /\ deferred = FALSE
    /\ ppc = "idle"
    /\ pidx = 1
    /\ pipe = OpenPipe
    /\ untarLog = << >>
    /\ cmdArgs = << >>
    /\ imageSHA = EmptyStr
    /\ resolved = << >>
    /\ midx = 1
    /\ child = NoChild
    /\ calls = << >>
    /\ retErr = "none"
    /\ exitStatus = -1
    /\ releases = 0

\* ------------------------------------------------------------------------
\* Returning from Run, and main
\* ------------------------------------------------------------------------
\* return e from ChrootSandbox.Run: the deferred cleanup runs, then the
\* caller gets e
RunDeferred(fsys) == IF deferred THEN ApplyCleanup(cleanup, fsys) ELSE fsys
RunDeferredCalls(cs) ==
    IF deferred /\ cleanup.kind = "removeAll" THEN Append(cs, "removeall") ELSE cs

ChrootReturn(e, fsys) ==
    /\ retErr' = e
    /\ fs' = RunDeferred(fsys)
    /\ calls' = RunDeferredCalls(calls)
    /\ pc' = "main"

\* os.Exit(code): the process ends at once with status code mod 256, no
\* deferred function runs
OsExit(code) ==
    /\ exitStatus' = code % 256
    /\ pc' = "exited"

\* variant: main prints the error and falls off the end
Main_ExitZero ==
    /\ pc = "main"
    /\ exitStatus' = 0
    /\ pc' = "exited"
    /\ UNCHANGED << inputVars, buildVars, fs, prepVars, deferred, pipeVars, untarLog,
                    dockerVars, child, calls, retErr, releases >>

\* main: print the error run returned and exit 1, or fall off the end
Main ==
    /\ pc = "main"
    /\ IF retErr # "none" THEN OsExit(1)
       ELSE /\ exitStatus' = 0
            /\ pc' = "exited"
    /\ UNCHANGED << inputVars, buildVars, fs, prepVars, deferred, pipeVars, untarLog,
                    dockerVars, child, calls, retErr, releases >>

\* ------------------------------------------------------------------------
\* prepareRootFS(imageRef), with imageRef = script.image
\* ------------------------------------------------------------------------
\* os.Stat(ref) succeeded and reports a directory (relative references are
\* looked up below the working directory)
ResolvedIsDir(fsys, r) == r.ok /\ KindAt(fsys, r.path) = "dir"

StatIsDir(fsys, ref) ==
    /\ ref # EmptyStr
    /\ ResolvedIsDir(fsys, RealPath(fsys, IF ref[1] = SLASH THEN Clean(ref) ELSE Join(Cwd, ref)))

\* prepareRootFS returns (root, release, err)
PrepReturn(root, rel, err) ==
    /\ realRoot' = root
    /\ cleanup' = rel
    /\ prepErr' = err
    /\ pc' = "p_ret"

\* variant: a local directory is returned with the deleting release function
PrepStat_OwnsLocalDir ==
    /\ pc = "p_stat"
    /\ calls' = Append(calls, "stat")
    /\ IF StatIsDir(fs, script.image)
       THEN PrepReturn(script.image, RemoveAllCleanup(script.image), "none")
       ELSE /\ pc' = "p_pull"
            /\ UNCHANGED << realRoot, cleanup, prepErr >>
    /\ UNCHANGED << inputVars, buildVars, fs, tmpDir, deferred, pipeVars, untarLog,
                    dockerVars, child, endVars, releases >>

\* info, err := os.Stat(imageRef); a local directory is returned as it is
PrepStat ==
    /\ pc = "p_stat"
    /\ calls' = Append(calls, "stat")
    /\ IF StatIsDir(fs, script.image)
       THEN PrepReturn(script.image, NoopCleanup, "none")
       ELSE /\ pc' = "p_pull"
            /\ UNCHANGED << realRoot, cleanup, prepErr >>
    /\ UNCHANGED << inputVars, buildVars, fs, tmpDir, deferred, pipeVars, untarLog,
                    dockerVars, child, endVars, releases >>

\* variant: a failed pull is tried once more
PrepPull_Retry ==
    /\ pc = "p_pull"
    /\ calls' = Append(calls, "pull")
    /\ \E ok \in BOOLEAN :
        /\ ok => script.image \in Pullable
        /\ IF ok
           THEN /\ pc' = "p_mkdtemp"
                /\ UNCHANGED << realRoot, cleanup, prepErr >>
           ELSE IF \A i \in 1..Len(calls) : calls[i] # "pull"
           THEN UNCHANGED << pc, realRoot, cleanup, prepErr >>
           ELSE PrepReturn(EmptyStr, NilCleanup, "Pull")
    /\ UNCHANGED << inputVars, buildVars, fs, tmpDir, deferred, pipeVars, untarLog,
                    dockerVars, child, endVars, releases >>

\* img, err := crane.Pull(imageRef)
PrepPull ==
    /\ pc = "p_pull"
    /\ calls' = Append(calls, "pull")
    /\ \E ok \in BOOLEAN :
        /\ ok => script.image \in Pullable
        /\ IF ok
           THEN /\ pc' = "p_mkdtemp"
                /\ UNCHANGED << realRoot, cleanup, prepErr >>
           ELSE PrepReturn(EmptyStr, NilCleanup, "Pull")
    /\ UNCHANGED << inputVars, buildVars, fs, tmpDir, deferred, pipeVars, untarLog,
                    dockerVars, child, endVars, releases >>

\* tmpDir, err := os.MkdirTemp(...); then the pipe is made and the export
\* goroutine is started
PrepMkdirTemp ==
    /\ pc = "p_mkdtemp"
    /\ calls' = Append(calls, "mkdtemp")
    /\ \E ok \in BOOLEAN :
        IF ok
        THEN /\ fs' = fs \cup {DirAt(TmpDirOf(runs))}
             /\ tmpDir' = TmpDirOf(runs)
             /\ ppc' = "export"
             /\ pidx' = 1
             /\ pipe' = OpenPipe
             /\ pc' = "untar"
             /\ UNCHANGED << realRoot, cleanup, prepErr >>
        ELSE /\ PrepReturn(EmptyStr, NilCleanup, "MkdirTemp")
             /\ UNCHANGED << fs, tmpDir, pipeVars >>
    /\ UNCHANGED << inputVars, buildVars, deferred, untarLog, dockerVars, child, endVars,
                    releases >>

\* the export goroutine: crane.Export writes the next header and its data;
\* the Write blocks until the reader has taken them
ExportWrite ==
    /\ ppc = "export"
    /\ pidx <= Len(archive)
    /\ pipe.buf = NoHeader
    /\ pipe' = [pipe EXCEPT !.buf = archive[pidx]]
    /\ ppc' = "writing"
    /\ UNCHANGED << inputVars, buildVars, pc, fs, prepVars, deferred, pidx, untarLog,
                    dockerVars, child, calls, endVars, releases >>

\* the blocked Write returns once the reader has consumed the chunk
ExportWritten ==
    /\ ppc = "writing"
    /\ pipe.buf = NoHeader
    /\ ppc' = "export"
    /\ pidx' = pidx + 1
    /\ UNCHANGED << inputVars, buildVars, pc, fs, prepVars, deferred, pipe, untarLog,
                    dockerVars, child, calls, endVars, releases >>

\* crane.Export returns nil after the last header: pw.CloseWithError(nil)
ExportFinish ==
    /\ ppc = "export"
    /\ pidx > Len(archive)
    /\ pipe' = [pipe EXCEPT !.wclosed = "eof"]
    /\ ppc' = "done"
    /\ UNCHANGED << inputVars, buildVars, pc, fs, prepVars, deferred, pidx, untarLog,
                    dockerVars, child, calls, endVars, releases >>

\* variant: the error of crane.Export is dropped and the pipe closed cleanly
ExportFail_CleanClose ==
    /\ ppc = "export"
    /\ pipe' = [pipe EXCEPT !.wclosed = "eof"]
    /\ ppc' = "done"
    /\ UNCHANGED << inputVars, buildVars, pc, fs, prepVars, deferred, pidx, untarLog,
                    dockerVars, child, calls, endVars, releases >>

\* crane.Export fails (a layer cannot be read): pw.CloseWithError(err)
ExportFail ==
    /\ ppc = "export"
    /\ pipe' = [pipe EXCEPT !.wclosed = "err"]
    /\ ppc' = "done"
    /\ UNCHANGED << inputVars, buildVars, pc, fs, prepVars, deferred, pidx, untarLog,
                    dockerVars, child, calls, endVars, releases >>

\* variant: the error of untar is returned without calling cleanup()
UntarFailed_NoCleanup(err, fsys) ==
    /\ fs' = fsys
    /\ calls' = calls
    /\ PrepReturn(EmptyStr, NilCleanup, err)

\* untar returned err: prepareRootFS calls cleanup() and returns the error
UntarFailed(err, fsys) ==
    /\ fs' = RemoveAll(fsys, tmpDir)
    /\ calls' = Append(calls, "removeall")
    /\ PrepReturn(EmptyStr, NilCleanup, err)

\* untar has handled header h with result r: it goes on with the next
\* header or returns the error to prepareRootFS
UntarHandled(h, r) ==
    /\ untarLog' = Append(untarLog,
            [header |-> h, path |-> Join(tmpDir, h.name),
             err |-> r.err, writes |-> r.writes, iofail |-> r.iofail])
    /\ IF r.err = "none"
       THEN /\ fs' = r.fs
            /\ UNCHANGED << pc, realRoot, cleanup, prepErr, calls >>
       ELSE UntarFailed(r.err, r.fs)

\* one round of untar's loop: tr.Next() and the handling of the header
UntarNext ==
    /\ pc = "untar"
    /\ \/ /\ pipe.buf # NoHeader
          /\ pipe' = [pipe EXCEPT !.buf = NoHeader]
          /\ \E fail \in IOFailures(pipe.buf.typeflag) :
                UntarHandled(pipe.buf, UntarEntry(fs, tmpDir, pipe.buf, fail))
       \/ /\ pipe.buf = NoHeader
          /\ pipe.wclosed = "eof"
          /\ PrepReturn(tmpDir, RemoveAllCleanup(tmpDir), "none")
          /\ UNCHANGED << fs, pipe, untarLog, calls >>
       \/ /\ pipe.buf = NoHeader
          /\ pipe.wclosed = "err"
          /\ UntarFailed("ExportStream", fs)
          /\ UNCHANGED << pipe, untarLog >>
    /\ UNCHANGED << inputVars, buildVars, tmpDir, deferred, ppc, pidx, dockerVars, child,
                    endVars, releases >>

\* a caller of prepareRootFS invoking the release function it got
InvokeRelease ==
    /\ pc = "p_ret"
    /\ prepErr = "none"
    /\ releases < MaxRelease
    /\ releases' = releases + 1
    /\ fs' = ApplyCleanup(cleanup, fs)
    /\ calls' = IF cleanup.kind = "removeAll" THEN Append(calls, "removeall") ELSE calls
    /\ UNCHANGED << inputVars, buildVars, pc, prepVars, deferred, pipeVars, untarLog,
                    dockerVars, child, endVars >>

\* ------------------------------------------------------------------------
\* ChrootSandbox.Run
\* ------------------------------------------------------------------------
\* variant: the image is handed to prepareRootFS without the emptiness test
ChrootCheckImage_NoCheck ==
    /\ pc = "c_run"
    /\ pc' = "p_stat"
    /\ UNCHANGED << fs, calls, retErr >>
    /\ UNCHANGED << inputVars, buildVars, prepVars, deferred, pipeVars, untarLog,
                    dockerVars, child, exitStatus, releases >>

\* rootPath := script.Image; an empty one is refused
ChrootCheckImage ==
    /\ pc = "c_run"
    /\ IF script.image = EmptyStr
       THEN ChrootReturn("MissingRoot", fs)
       ELSE /\ pc' = "p_stat"
            /\ UNCHANGED << fs, calls, retErr >>
    /\ UNCHANGED << inputVars, buildVars, prepVars, deferred, pipeVars, untarLog,
                    dockerVars, child, exitStatus, releases >>

\* realRoot, cleanup, err := prepareRootFS(rootPath); its error is returned,
\* else cleanup is deferred
ChrootAfterPrepare ==
    /\ pc = "p_ret"
    /\ IF prepErr # "none"
       THEN /\ ChrootReturn(prepErr, fs)
            /\ UNCHANGED deferred
       ELSE /\ deferred' = TRUE
            /\ pc' = "c_cmd"
            /\ UNCHANGED << fs, calls, retErr >>
    /\ UNCHANGED << inputVars, buildVars, prepVars, pipeVars, untarLog, dockerVars, child,
                    exitStatus, releases >>

\* cmdPath and cmdArgs: the entrypoint with the arguments, or the arguments
ChrootCmdPath == IF script.entrypoint # EmptyStr THEN script.entrypoint ELSE args[1]

\* variant: the entrypoint is also handed over as the first argument
ChrootCmdArgs_ExtraArgv0 ==
    IF script.entrypoint # EmptyStr
    THEN <<script.entrypoint, script.entrypoint>> \o args
    ELSE args

ChrootCmdArgs == IF script.entrypoint # EmptyStr THEN <<script.entrypoint>> \o args ELSE args

\* determine the command to run and build cmd := execCommand(cmdPath,
\* cmdArgs[1:]...) with Chroot: realRoot and Dir: "/"
ChrootSelectCommand ==
    /\ pc = "c_cmd"
    /\ IF script.entrypoint = EmptyStr /\ Len(args) = 0
       THEN /\ ChrootReturn("NoCommand", fs)
            /\ UNCHANGED child
       ELSE /\ child' = [path |-> ChrootCmdPath, args |-> Tail(ChrootCmdArgs),
                         root |-> realRoot, dir |-> ROOT, outcome |-> "none",
                         code |-> -1]
            /\ pc' = "c_feat"
            /\ UNCHANGED << fs, calls, retErr >>
    /\ UNCHANGED << inputVars, buildVars, prepVars, deferred, pipeVars, untarLog,
                    dockerVars, exitStatus, releases >>

\* mounts and environment variables are not supported
ChrootCheckUnsupported ==
    /\ pc = "c_feat"
    /\ IF Len(script.mounts) > 0 THEN ChrootReturn("UnsupportedMounts", fs)
       ELSE IF Len(script.env) > 0 THEN ChrootReturn("UnsupportedEnv", fs)
       ELSE /\ pc' = "c_exec"
            /\ UNCHANGED << fs, calls, retErr >>
    /\ UNCHANGED << inputVars, buildVars, prepVars, deferred, pipeVars, untarLog,
                    dockerVars, child, exitStatus, releases >>

\* variant: every failed child ends the process with status 1
ExitErrorCode_AlwaysOne(o) == 1

\* what os.Exit is called with for an *exec.ExitError: ExitCode()
ExitErrorCode(o) == o.code

\* cmd.Run() and the handling of its result
ChrootExec ==
    /\ pc = "c_exec"
    /\ \E o \in Outcomes :
        /\ child' = [child EXCEPT !.outcome = o.kind, !.code = o.code]
        /\ IF o.kind = "exited" /\ o.code = 0
           THEN /\ retErr' = "none"
                /\ fs' = RunDeferred(fs)
                /\ calls' = RunDeferredCalls(Append(calls, "launch"))
                /\ pc' = "main"
                /\ UNCHANGED exitStatus
           ELSE IF o.kind \in {"exited", "signaled"}
           THEN /\ OsExit(ExitErrorCode(o))
                /\ calls' = Append(calls, "launch")
                /\ UNCHANGED << fs, retErr >>
           ELSE /\ retErr' = "ChildStart"
                /\ fs' = RunDeferred(fs)
                /\ calls' = RunDeferredCalls(Append(calls, "launch"))
                /\ pc' = "main"
                /\ UNCHANGED exitStatus
    /\ UNCHANGED << inputVars, buildVars, prepVars, deferred, pipeVars, untarLog,
                    dockerVars, releases >>

\* ------------------------------------------------------------------------
\* DockerSandbox.Run: buildDockerArgs, getImageSHA, resolveMounts, findGitRoot
\* ------------------------------------------------------------------------
CacheTokenOld == <<"{cacheDir}">>
CacheTokenNew == <<"$", "{cacheDir}">>
GitRootToken == <<"git.repoRoot(cwd)">>
TILDE == "~"

\* os.UserHomeDir(), os.UserCacheDir()
Home == <<SLASH, "h", SLASH, "u">>
UserCache == <<SLASH, "h", SLASH, "u", SLASH, ".cache">>
\* what `git rev-parse --show-toplevel` prints inside a repository
GitOut == <<SLASH, "g", "\n">>
\* what `docker images --no-trunc --quiet <image>` may print
ShaOutputs == { EmptyStr, <<"\n">>, <<"sha256:", "D", "\n">>, <<"D", "\n">> }

IsSpace(a) == a \in {" ", "\n", "\t"}

\* strings.TrimSpace(s)
RECURSIVE TrimLeft(_)
TrimLeft(s) == IF s # << >> /\ IsSpace(Head(s)) THEN TrimLeft(Tail(s)) ELSE s
RECURSIVE TrimRight(_)
TrimRight(s) ==
    IF s # << >> /\ IsSpace(s[Len(s)]) THEN TrimRight(SubSeq(s, 1, Len(s) - 1)) ELSE s
TrimSpace(s) == TrimRight(TrimLeft(s))

\* s[n:] counted in atoms
Drop(s, n) == SubSeq(s, n + 1, Len(s))

\* getImageSHA, given what the docker command did: ok = it exited 0, out =
\* what it printed
GetImageSHA(ok, out) ==
    IF ~ok THEN [err |-> "ImageSHA", sha |-> EmptyStr]
    ELSE IF TrimSpace(out) = EmptyStr THEN [err |-> "ImageNotFound", sha |-> EmptyStr]
    ELSE IF HasPrefix(TrimSpace(out), <<"sha256:">>)
         THEN [err |-> "none", sha |-> Drop(TrimSpace(out), 1)]
         ELSE [err |-> "none", sha |-> TrimSpace(out)]

\* findGitRoot, given what the git command did
FindGitRoot(ok, out) ==
    IF ~ok THEN [err |-> "GitRoot", root |-> EmptyStr]
    ELSE [err |-> "none", root |-> TrimSpace(out)]

UsesCacheToken(h) == Contains(h, CacheTokenOld) \/ Contains(h, CacheTokenNew)

\* buildDockerArgs: needsSHA
NeedsSHA(mounts) == \E i \in 1..Len(mounts) : UsesCacheToken(mounts[i].hostPath)

\* return e from DockerSandbox.Run
DockerReturn(e) ==
    /\ retErr' = e
    /\ pc' = "main"

\* variant: a failed lookup is answered by going on without a digest
DigestLookedUp_Fallback(r) ==
    /\ calls' = Append(calls, "imagesha")
    /\ imageSHA' = r.sha
    /\ pc' = "d_resolve0"
    /\ UNCHANGED retErr

\* imageSHA, err = getImageSHAFn(script.Image) returned r
DigestLookedUp(r) ==
    /\ calls' = Append(calls, "imagesha")
    /\ IF r.err # "none"
       THEN /\ DockerReturn(r.err)
            /\ UNCHANGED imageSHA
       ELSE /\ imageSHA' = r.sha
            /\ pc' = "d_resolve0"
            /\ UNCHANGED retErr

\* buildDockerArgs up to the call of resolveMounts: the base flags and the
\* digest lookup, made when a mount uses the cache directory
BuildArgsDigest ==
    /\ pc = "d_run"
    /\ cmdArgs' = << <<"run">>, <<"-i">> >> \o (IF isTerm THEN << <<"-t">> >> ELSE << >>)
    /\ IF NeedsSHA(script.mounts)
       THEN \E ok \in BOOLEAN, out \in ShaOutputs : DigestLookedUp(GetImageSHA(ok, out))
       ELSE /\ pc' = "d_resolve0"
            /\ UNCHANGED << imageSHA, calls, retErr >>
    /\ UNCHANGED << inputVars, buildVars, fs, prepVars, deferred, pipeVars, untarLog,
                    resolved, midx, child, exitStatus, releases >>

\* resolveMounts before its loop: os.Getwd() and os.UserHomeDir()
ResolveBegin ==
    /\ pc = "d_resolve0"
    /\ \E wdOk \in BOOLEAN, homeOk \in BOOLEAN :
        IF ~wdOk THEN DockerReturn("Getwd") /\ UNCHANGED << resolved, midx >>
        ELSE IF ~homeOk THEN DockerReturn("HomeDir") /\ UNCHANGED << resolved, midx >>
        ELSE /\ resolved' = << >>
             /\ midx' = 1
             /\ pc' = "d_resolve"
             /\ UNCHANGED retErr
    /\ UNCHANGED << inputVars, buildVars, fs, prepVars, deferred, pipeVars, untarLog,
                    cmdArgs, imageSHA, child, calls, exitStatus, releases >>

\* filepath.Join(userCache, "clix", "cache", imageSHA)
CacheDirFor(sha) == Join(Join(Join(UserCache, <<"clix">>), <<"cache">>), sha)

\* the host path after the ~ expansion of resolveMounts
ExpandHostHome(h) ==
    IF HasPrefix(h, <<TILDE, SLASH>>) THEN Join(Home, Drop(h, 2))
    ELSE IF h = <<TILDE>> THEN Home
    ELSE h

\* variant: the sandbox path is expanded to the invoking user's home
ExpandSandboxHome_UserHome(sp) ==
    IF HasPrefix(sp, <<TILDE, SLASH>>) THEN Join(Home, Drop(sp, 2))
    ELSE IF sp = <<TILDE>> THEN Home
    ELSE sp

\* the sandbox path after the ~ expansion of resolveMounts
ExpandSandboxHome(sp) ==
    IF HasPrefix(sp, <<TILDE, SLASH>>) THEN <<SLASH, "root", SLASH>> \o Drop(sp, 2)
    ELSE IF sp = <<TILDE>> THEN <<SLASH, "root">>
    ELSE sp

ResolveResult(e, m, fsys, ev) == [err |-> e, mount |-> m, fs |-> fsys, events |-> ev]

\* variant: a sandbox path the script gives is put below /mnt
ResolveDefault_BelowMnt(h, sp, fsys, ev) ==
    ResolveResult("none",
                  Mount(h, IF sp = EmptyStr THEN h ELSE <<SLASH, "mnt">> \o sp), fsys, ev)

\* if m.SandboxPath == "" { m.SandboxPath = m.HostPath }; append
ResolveDefault(h, sp, fsys, ev) ==
    ResolveResult("none", Mount(h, IF sp = EmptyStr THEN h ELSE sp), fsys, ev)

\* variant: an empty sandbox path is set from the host path before the host
\* path is expanded
ResolveHome_DefaultFirst(h, sp, fsys, ev) ==
    ResolveDefault(ExpandHostHome(h),
                   IF sp = EmptyStr THEN h ELSE ExpandSandboxHome(sp), fsys, ev)

\* the ~ expansions of the host path and of the sandbox path
ResolveHome(h, sp, fsys, ev) ==
    ResolveDefault(ExpandHostHome(h), ExpandSandboxHome(sp), fsys, ev)

\* the git root sentinel, git being what findGitRoot(cwd) returned
ResolveGitFound(m, sp, fsys, ev, git) ==
    IF git.err # "none" THEN ResolveResult("GitRoot", m, fsys, ev)
    ELSE ResolveHome(git.root, sp, fsys, ev)

\* variant: a host path that starts with the sentinel is replaced too
ResolveGit_Prefix(m, h, sp, fsys, ev, gitOk) ==
    IF HasPrefix(h, GitRootToken)
    THEN ResolveGitFound(m, sp, fsys, Append(ev, "gitroot"), FindGitRoot(gitOk, GitOut))
    ELSE ResolveHome(h, sp, fsys, ev)

\* if m.HostPath == "git.repoRoot(cwd)"
ResolveGit(m, h, sp, fsys, ev, gitOk) ==
    IF h = GitRootToken
    THEN ResolveGitFound(m, sp, fsys, Append(ev, "gitroot"), FindGitRoot(gitOk, GitOut))
    ELSE ResolveHome(h, sp, fsys, ev)

\* the cache directory token after os.MkdirAll(cacheDir, 0755) did mk: both
\* spellings are replaced, "{cacheDir}" first
ResolveCacheMade(m, warn, cacheDir, mkOk, gitOk, mk) ==
    IF ~mkOk \/ ~mk.ok
    THEN ResolveResult("CacheMkdir", m, mk.fs, Append(warn, "mkcache"))
    ELSE ResolveGit(m,
                    ReplaceAll(ReplaceAll(m.hostPath, CacheTokenOld, cacheDir),
                               CacheTokenNew, cacheDir),
                    m.sandboxPath, mk.fs, Append(warn, "mkcache"), gitOk)

\* variant: the cache directory is derived from whatever digest is given
ResolveCache_NoDigestCheck(m, sha, fsys, warn, ucOk, mkOk, gitOk) ==
    IF ~ucOk THEN ResolveResult("UserCacheDir", m, fsys, warn)
    ELSE ResolveCacheMade(m, warn, CacheDirFor(sha), mkOk, gitOk,
                          MkdirAll(fsys, CacheDirFor(sha)))

\* the cache directory token: the digest is required, then the directory
\* is made below os.UserCacheDir()
ResolveCache(m, sha, fsys, warn, ucOk, mkOk, gitOk) ==
    IF sha = EmptyStr THEN ResolveResult("MissingDigest", m, fsys, warn)
    ELSE IF ~ucOk THEN ResolveResult("UserCacheDir", m, fsys, warn)
    ELSE ResolveCacheMade(m, warn, CacheDirFor(sha), mkOk, gitOk,
                          MkdirAll(fsys, CacheDirFor(sha)))

\* the deprecation warning for the "{cacheDir}" spelling
CacheWarning(h) == IF Contains(h, CacheTokenOld) THEN <<"warn">> ELSE << >>

\* the body of resolveMounts' loop for mount m: the error it returns ("none"
\* to go on), the resolved mount, the disk afterwards and the external
\* operations performed, given whether os.UserCacheDir, the creation of the
\* cache directory and the git command succeed
ResolveOne(m, sha, fsys, ucOk, mkOk, gitOk) ==
    IF UsesCacheToken(m.hostPath)
    THEN ResolveCache(m, sha, fsys, CacheWarning(m.hostPath), ucOk, mkOk, gitOk)
    ELSE ResolveGit(m, m.hostPath, m.sandboxPath, fsys, << >>, gitOk)

RECURSIVE AppendAll(_, _)
AppendAll(s, t) == IF t = << >> THEN s ELSE AppendAll(Append(s, Head(t)), Tail(t))

\* variant: a mount whose sandbox path is already taken is dropped
ResolveHandled_Dedup(r) ==
    /\ fs' = r.fs
    /\ calls' = AppendAll(calls, r.events)
    /\ IF r.err # "none"
       THEN /\ DockerReturn(r.err)
            /\ resolved' = << >>
            /\ UNCHANGED midx
       ELSE /\ resolved' =
                  IF \E j \in 1..Len(resolved) :
                          resolved[j].sandboxPath = r.mount.sandboxPath
                  THEN resolved
                  ELSE Append(resolved, r.mount)
            /\ midx' = midx + 1
            /\ UNCHANGED << pc, retErr >>

\* resolveMounts has handled the mount at midx with result r: it goes on
\* with the next mount or returns the error
ResolveHandled(r) ==
    /\ fs' = r.fs
    /\ calls' = AppendAll(calls, r.events)
    /\ IF r.err # "none"
       THEN /\ DockerReturn(r.err)
            /\ resolved' = << >>
            /\ UNCHANGED midx
       ELSE /\ resolved' = Append(resolved, r.mount)
            /\ midx' = midx + 1
            /\ UNCHANGED << pc, retErr >>

\* one round of resolveMounts' loop
ResolveMount ==
    /\ pc = "d_resolve"
    /\ midx <= Len(script.mounts)
    /\ \E ucOk \in BOOLEAN, mkOk \in BOOLEAN, gitOk \in BOOLEAN :
        ResolveHandled(ResolveOne(script.mounts[midx], imageSHA, fs, ucOk, mkOk, gitOk))
    /\ UNCHANGED << inputVars, buildVars, prepVars, deferred, pipeVars, untarLog, cmdArgs,
                    imageSHA, child, exitStatus, releases >>

\* the flag pairs buildDockerArgs appends for the mounts and the variables
RECURSIVE MountFlags(_)
MountFlags(ms) ==
    IF ms = << >> THEN << >>
    ELSE << <<"-v">>, Head(ms).hostPath \o <<":">> \o Head(ms).sandboxPath >>
            \o MountFlags(Tail(ms))

RECURSIVE EnvFlags(_)
EnvFlags(es) ==
    IF es = << >> THEN << >>
    ELSE << <<"-e">>, Head(es).name \o <<"=">> \o Head(es).value >>
            \o EnvFlags(Tail(es))

\* variant: the environment flags are appended before the mount flags
BuildArgsTail_EnvFirst(base, ms, sc, as) ==
    base \o EnvFlags(sc.env) \o MountFlags(ms) \o << <<"-w">>, Cwd >>
        \o (IF sc.entrypoint # EmptyStr THEN << <<"--entrypoint">>, sc.entrypoint >> ELSE << >>)
        \o << sc.image >> \o as

\* buildDockerArgs after resolveMounts returned the list
BuildArgsTail(base, ms, sc, as) ==
    base \o MountFlags(ms) \o EnvFlags(sc.env) \o << <<"-w">>, Cwd >>
        \o (IF sc.entrypoint # EmptyStr THEN << <<"--entrypoint">>, sc.entrypoint >> ELSE << >>)
        \o << sc.image >> \o as

\* resolveMounts returns its list and buildDockerArgs completes the vector;
\* DockerSandbox.Run builds cmd := execCommand("docker", cmdArgs...)
BuildArgsFinish ==
    /\ pc = "d_resolve"
    /\ midx > Len(script.mounts)
    /\ \E wdOk \in BOOLEAN :
        IF ~wdOk
        THEN /\ DockerReturn("Getwd")
             /\ cmdArgs' = << >>
             /\ UNCHANGED child
        ELSE /\ cmdArgs' = BuildArgsTail(cmdArgs, resolved, script, args)
             /\ child' = [path |-> <<"docker">>,
                          args |-> BuildArgsTail(cmdArgs, resolved, script, args),
                          root |-> EmptyStr, dir |-> EmptyStr, outcome |-> "none",
                          code |-> -1]
             /\ pc' = "d_exec"
             /\ UNCHANGED retErr
    /\ UNCHANGED << inputVars, buildVars, fs, prepVars, deferred, pipeVars, untarLog,
                    imageSHA, resolved, midx, calls, exitStatus, releases >>

\* cmd.Run() and the handling of its result
DockerExec ==
    /\ pc = "d_exec"
    /\ \E o \in Outcomes :
        /\ child' = [child EXCEPT !.outcome = o.kind, !.code = o.code]
        /\ calls' = Append(calls, "launch")
        /\ IF o.kind = "exited" /\ o.code = 0
           THEN /\ DockerReturn("none")
                /\ UNCHANGED exitStatus
           ELSE IF o.kind \in {"exited", "signaled"}
           THEN /\ OsExit(ExitErrorCode(o))
                /\ UNCHANGED retErr
           ELSE /\ DockerReturn("ChildStart")
                /\ UNCHANGED exitStatus
    /\ UNCHANGED << inputVars, buildVars, fs, prepVars, deferred, pipeVars, untarLog,
                    dockerVars, releases >>

\* ------------------------------------------------------------------------
\* buildImage, getRemoteHead, imageExists
\* ------------------------------------------------------------------------
\* repositories a build section names: two spellings of one URL, another
\* repository of the same name, an scp-like address
RepoExample == <<"https:", SLASH, SLASH, "github.com", SLASH, "example", SLASH, "repo">>
RepoExampleGit == RepoExample \o <<".git">>
RepoOther == <<"https:", SLASH, SLASH, "github.com", SLASH, "other", SLASH, "repo">>
RepoScp == <<"host", ":", "repo", ".git">>
Repos == { EmptyStr, RepoExample, RepoExampleGit, RepoOther, RepoScp }

BuildConfigs ==
    { BuildConfig(g, b, d) : g \in Repos, b \in { EmptyStr, <<"dev">> },
                             d \in { EmptyStr, <<"Dockerfile.ci">> } }

\* what `git ls-remote <repo> <ref>` may print
RemoteOuts ==
    { EmptyStr,
      <<"\n">>,
      <<"c1", "\t", "HEAD", "\n">>,
      <<"c2", "\t", "HEAD", "\n", "c3", "\t", "x", "\n">> }

\* hex.EncodeToString(sha256.Sum256([]byte(git)))[:8]: one digest per text
RepoHash(git) ==
    CASE git = RepoExample -> <<"h1">>
      [] git = RepoExampleGit -> <<"h2">>
      [] git = RepoOther -> <<"h3">>
      [] git = RepoScp -> <<"h4">>
      [] OTHER -> <<"h0">>

\* strings.TrimSuffix(s, suf)
TrimSuffix(s, suf) ==
    IF Len(s) >= Len(suf) /\ SubSeq(s, Len(s) - Len(suf) + 1, Len(s)) = suf
    THEN SubSeq(s, 1, Len(s) - Len(suf))
    ELSE s

\* the part of s before its first atom in stops
RECURSIVE UpTo(_, _)
UpTo(s, stops) ==
    IF s = << >> \/ Head(s) \in stops THEN << >>
    ELSE <<Head(s)>> \o UpTo(Tail(s), stops)

\* strings.Split(s, "\n")[0] and strings.Fields(line)[0] of a line without
\* leading white space
FirstLine(s) == UpTo(s, {"\n"})
FirstField(line) == UpTo(line, {" ", "\t", "\n"})

\* getRemoteHead, given what the git command did
GetRemoteHead(ok, out) ==
    IF ~ok THEN [err |-> "LsRemote", hash |-> EmptyStr]
    ELSE IF FirstLine(TrimSpace(out)) = EmptyStr
         THEN [err |-> "NoRemoteOutput", hash |-> EmptyStr]
    ELSE [err |-> "none", hash |-> FirstField(FirstLine(TrimSpace(out)))]

\* parts[len(parts)-1] with the suffix ".git" trimmed and ":" replaced by "-"
BaseName(git) ==
    ReplaceAll(TrimSuffix(SplitPath(git)[Len(SplitPath(git))], <<".git">>),
               <<":">>, <<"-">>)

\* fmt.Sprintf("clix-%s-%s:%s", baseName, repoHashStr, commitHash)
ImageTag(git, commitHash) ==
    <<"clix-">> \o BaseName(git) \o <<"-">> \o RepoHash(git) \o <<":">> \o commitHash

\* os.MkdirTemp("", "clix-build-*")
BuildDir == <<SLASH, "t", "b">>

\* the number of external operations made by the finished calls
RECURSIVE OpsOf(_)
OpsOf(bs) == IF bs = << >> THEN 0 ELSE Len(Head(bs).ops) + OpsOf(Tail(bs))

\* buildImage returns (tag, err) after the external operations cs; existed
\* is what imageExists answered, "unknown" if it was not reached
BuildReturn(tag, err, checked, existed, cs) ==
    /\ calls' = cs
    /\ built' = Append(built, [tag |-> tag, err |-> err, checked |-> checked,
                               existed |-> existed, ops |-> Drop(cs, OpsOf(built))])
    /\ pc' = "b_ret"

\* commitHash, err := getRemoteHead(...) returned r; the tag is computed
BuildHeadKnown(r) ==
    IF r.err # "none"
    THEN /\ BuildReturn(EmptyStr, r.err, EmptyStr, "unknown", Append(calls, "lsremote"))
         /\ UNCHANGED imageTag
    ELSE /\ imageTag' = ImageTag(build.git, r.hash)
         /\ calls' = Append(calls, "lsremote")
         /\ pc' = "b_exists"
         /\ UNCHANGED built

\* buildImage up to the computation of imageTag
BuildRemoteHead ==
    /\ pc = "b_head"
    /\ IF build.git = EmptyStr
       THEN /\ BuildReturn(EmptyStr, "GitRequired", EmptyStr, "unknown", calls)
            /\ UNCHANGED imageTag
       ELSE \E ok \in BOOLEAN : BuildHeadKnown(GetRemoteHead(ok, remoteOut))
    /\ UNCHANGED << inputVars, fs, prepVars, deferred, pipeVars, untarLog,
                    dockerVars, child, endVars, releases, build, remoteOut, store >>

\* variant: the image is built whether or not the store has the tag
BuildImageExists_AlwaysBuild ==
    /\ pc = "b_exists"
    /\ \E ok \in BOOLEAN :
        IF ~ok
        THEN BuildReturn(EmptyStr, "ImageExists", imageTag, "unknown",
                         Append(calls, "imageexists"))
        ELSE /\ calls' = Append(calls, "imageexists")
             /\ pc' = "b_mkdtemp"
             /\ UNCHANGED built
    /\ UNCHANGED << inputVars, fs, prepVars, deferred, pipeVars, untarLog,
                    dockerVars, child, endVars, releases, build, remoteOut, store,
                    imageTag >>

\* exists, err := imageExists(imageTag); an image that exists is returned
BuildImageExists ==
    /\ pc = "b_exists"
    /\ \E ok \in BOOLEAN :
        IF ~ok
        THEN BuildReturn(EmptyStr, "ImageExists", imageTag, "unknown",
                         Append(calls, "imageexists"))
        ELSE IF imageTag \in store
        THEN BuildReturn(imageTag, "none", imageTag, "yes", Append(calls, "imageexists"))
        ELSE /\ calls' = Append(calls, "imageexists")
             /\ pc' = "b_mkdtemp"
             /\ UNCHANGED built
    /\ UNCHANGED << inputVars, fs, prepVars, deferred, pipeVars, untarLog,
                    dockerVars, child, endVars, releases, build, remoteOut, store,
                    imageTag >>

\* tempDir, err := os.MkdirTemp(...); defer os.RemoveAll(tempDir)
BuildMkdirTemp ==
    /\ pc = "b_mkdtemp"
    /\ \E ok \in BOOLEAN :
        IF ok
        THEN /\ fs' = fs \cup {DirAt(BuildDir)}
             /\ calls' = Append(calls, "mkdtemp")
             /\ pc' = "b_clone"
             /\ UNCHANGED built
        ELSE /\ BuildReturn(EmptyStr, "MkdirTemp", imageTag, "no", Append(calls, "mkdtemp"))
             /\ UNCHANGED fs
    /\ UNCHANGED << inputVars, prepVars, deferred, pipeVars, untarLog,
                    dockerVars, child, endVars, releases, build, remoteOut, store,
                    imageTag >>

\* git clone --depth 1 [--branch b] <git> <tempDir>
BuildClone ==
    /\ pc = "b_clone"
    /\ \E ok \in BOOLEAN :
        IF ok
        THEN /\ fs' = fs \cup {FileAt(Join(BuildDir, <<"Dockerfile">>))}
             /\ calls' = Append(calls, "clone")
             /\ pc' = "b_build"
             /\ UNCHANGED built
        ELSE /\ fs' = RemoveAll(fs, BuildDir)
             /\ BuildReturn(EmptyStr, "Clone", imageTag, "no",
                            Append(Append(calls, "clone"), "removeall"))
    /\ UNCHANGED << inputVars, prepVars, deferred, pipeVars, untarLog,
                    dockerVars, child, endVars, releases, build, remoteOut, store,
                    imageTag >>

\* docker buildx build -f <dockerfile> --load --tag <imageTag> . in tempDir;
\* a successful build puts the tag into the store
BuildDocker ==
    /\ pc = "b_build"
    /\ fs' = RemoveAll(fs, BuildDir)
    /\ \E ok \in BOOLEAN :
        IF ok
        THEN /\ store' = store \cup {imageTag}
             /\ BuildReturn(imageTag, "none", imageTag, "no",
                            Append(Append(calls, "build"), "removeall"))
        ELSE /\ BuildReturn(EmptyStr, "DockerBuild", imageTag, "no",
                            Append(Append(calls, "build"), "removeall"))
             /\ UNCHANGED store
    /\ UNCHANGED << inputVars, prepVars, deferred, pipeVars, untarLog,
                    dockerVars, child, endVars, releases, build, remoteOut, imageTag >>

\* a later run of the same script calls buildImage again
BuildAgain ==
    /\ pc = "b_ret"
    /\ Len(built) < MaxBuilds
    /\ imageTag' = EmptyStr
    /\ pc' = "b_head"
    /\ UNCHANGED << inputVars, fs, prepVars, deferred, pipeVars, untarLog,
                    dockerVars, child, calls, endVars, releases, build, remoteOut,
                    store, built >>

BuildImage ==
    \/ BuildRemoteHead
    \/ BuildImageExists
    \/ BuildMkdirTemp
    \/ BuildClone
    \/ BuildDocker

\* ------------------------------------------------------------------------
\* Specifications
\* ------------------------------------------------------------------------
\* mount lists of the scripts: plain paths, both spellings of the cache
\* directory token, the git root sentinel, home references
MountLists ==
    { << >>,
      << Mount(<<SLASH, "m">>, EmptyStr) >>,
      << Mount(<<"{cacheDir}", SLASH, "py">>, <<SLASH, "c">>) >>,
      << Mount(<<SLASH, "m">>, <<SLASH, "n">>), Mount(<<"$", "{cacheDir}", SLASH, "py">>, EmptyStr) >>,
      << Mount(GitRootToken, EmptyStr), Mount(<<TILDE, SLASH, "x">>, <<TILDE>>) >>,
      << Mount(<<TILDE>>, <<TILDE, SLASH, "y">>), Mount(<<"{cacheDir}">>, EmptyStr) >> }

Scripts ==
    { Script(i, e, m, v) : i \in Images, e \in Entrypoints, m \in MountLists, v \in EnvLists }

\* Spec: one call of Sandbox.Run from run, for either variant, and main's
\* handling of what run returns
Init ==
    /\ script \in Scripts
    /\ goCfg = NilGo
    /\ runs = 1
    /\ shaOut = EmptyStr
    /\ args \in ArgLists
    /\ isTerm \in BOOLEAN
    /\ sandbox \in {"docker", "chroot"}
    /\ archive \in FewArchives
    /\ (sandbox = "docker" \/ script.image \notin Pullable) => archive = << >>
    /\ (sandbox = "chroot") => ~isTerm
    /\ pc = IF sandbox = "chroot" THEN "c_run" ELSE "d_run"
    /\ InitLocals
    /\ NoBuild

Export == ExportWrite \/ ExportWritten \/ ExportFinish \/ ExportFail

PrepareRootFS == PrepStat \/ PrepPull \/ PrepMkdirTemp \/ UntarNext \/ Export

ChrootRun ==
    \/ ChrootCheckImage
    \/ PrepareRootFS
    \/ ChrootAfterPrepare
    \/ ChrootSelectCommand
    \/ ChrootCheckUnsupported
    \/ ChrootExec

DockerRun ==
    \/ BuildArgsDigest
    \/ ResolveBegin
    \/ ResolveMount
    \/ BuildArgsFinish
    \/ DockerExec

Next == ChrootRun \/ DockerRun \/ Main

Spec == Init /\ [][Next]_vars

\* SpecPrepare: prepareRootFS called on any image reference and any tar
\* stream, by a caller that then invokes the release function it was given
InitPrepare ==
    /\ script \in { Script(i, EmptyStr, << >>, << >>) : i \in Images }
    /\ goCfg = NilGo
    /\ runs = 1
    /\ shaOut = EmptyStr
    /\ args = << >>
    /\ isTerm = FALSE
    /\ sandbox = "chroot"
    /\ archive \in Archives
    /\ (script.image \notin Pullable) => archive = << >>
    /\ pc = "p_stat"
    /\ InitLocals
    /\ NoBuild

NextPrepare == PrepareRootFS \/ InvokeRelease

SpecPrepare == InitPrepare /\ [][NextPrepare]_vars

\* resolveMounts returns the list to a caller other than buildDockerArgs
ResolveDone ==
    /\ pc = "d_resolve"
    /\ midx > Len(script.mounts)
    /\ pc' = "r_ret"
    /\ UNCHANGED << inputVars, buildVars, fs, prepVars, deferred, pipeVars, untarLog,
                    dockerVars, child, calls, endVars, releases >>

\* the mounts resolveMounts is called on: plain absolute paths, a relative
\* path, both spellings of the cache directory token, the git root sentinel,
\* leading and inner home references, with and without a sandbox path
ResolveMountInputs ==
    { Mount(<<SLASH, "m">>, EmptyStr),
      Mount(<<SLASH, "m">>, <<SLASH, "n">>),
      Mount(<<"{cacheDir}", SLASH, "py">>, <<SLASH, "c">>),
      Mount(<<"$", "{cacheDir}", SLASH, "py">>, EmptyStr),
      Mount(<<"$", "{cacheDir}">>, <<SLASH, "c">>),
      Mount(GitRootToken, EmptyStr),
      Mount(<<TILDE, SLASH, "x">>, EmptyStr),
      Mount(<<TILDE>>, <<TILDE, SLASH, "y">>),
      Mount(<<SLASH, "a", SLASH, TILDE>>, <<TILDE>>),
      Mount(<<SLASH, "m">>, <<SLASH, "b", SLASH, TILDE>>),
      Mount(<<"r">>, EmptyStr),
      Mount(GitRootToken \o <<SLASH, "s">>, <<SLASH, "n">>) }

\* the digests resolveMounts is called with: none, and the digest D
Digests == { EmptyStr, <<"D">> }

\* SpecResolve: resolveMounts called on any list of at most MaxMounts mounts
\* with any digest
InitResolve ==
    /\ script \in { Script(ImgOK, EmptyStr, ms, << >>) :
                        ms \in SeqsUpTo(ResolveMountInputs, MaxMounts) }
    /\ goCfg = NilGo
    /\ runs = 1
    /\ shaOut = EmptyStr
    /\ args = << >>
    /\ isTerm = FALSE
    /\ sandbox = "docker"
    /\ archive = << >>
    /\ pc = "d_resolve0"
    /\ fs = InitialDisk \cup {DirAt(Cwd)}
    /\ tmpDir = EmptyStr
    /\ realRoot = EmptyStr
    /\ cleanup = NilCleanup
    /\ prepErr = "none"
    /\ deferred = FALSE
    /\ ppc = "idle"
    /\ pidx = 1
    /\ pipe = OpenPipe
    /\ untarLog = << >>
    /\ cmdArgs = << >>
    /\ imageSHA \in Digests
    /\ resolved = << >>
    /\ midx = 1
    /\ child = NoChild
    /\ calls = << >>
    /\ retErr = "none"
    /\ exitStatus = -1
    /\ releases = 0
    /\ NoBuild

NextResolve == ResolveBegin \/ ResolveMount \/ ResolveDone

\* resolveMounts' loop over the mounts ms as one computation: acc is what
\* the rounds before have left (error, list so far, disk, operations), ok
\* whether the environment's operations succeed
ResolveStart(fsys) == [err |-> "none", mounts |-> << >>, fs |-> fsys, events |-> << >>]

ResolveStep(acc, r) ==
    [err |-> r.err,
     mounts |-> IF r.err # "none" THEN << >> ELSE Append(acc.mounts, r.mount),
     fs |-> r.fs,
     events |-> acc.events \o r.events]

RECURSIVE ResolveLoop(_, _, _, _)
ResolveLoop(ms, sha, acc, ok) ==
    IF ms = << >> \/ acc.err # "none" THEN acc
    ELSE ResolveLoop(Tail(ms), sha,
                     ResolveStep(acc, ResolveOne(Head(ms), sha, acc.fs, ok, ok, ok)), ok)

\* the second call has returned r
ResolvedAgain(r) ==
    /\ retErr' = r.err
    /\ resolved' = r.mounts
    /\ fs' = r.fs
    /\ calls' = AppendAll(calls, r.events)

\* the caller hands the list it got back to resolveMounts, with the same
\* digest: script.mounts becomes the argument of this call, resolved its
\* result
ResolveAgain ==
    /\ pc = "r_ret"
    /\ retErr = "none"
    /\ script' = [script EXCEPT !.mounts = resolved]
    /\ pc' = "r_again"
    /\ \E wdOk \in BOOLEAN, homeOk \in BOOLEAN, ok \in BOOLEAN :
        IF ~wdOk
        THEN ResolvedAgain([err |-> "Getwd", mounts |-> << >>, fs |-> fs, events |-> << >>])
        ELSE IF ~homeOk
        THEN ResolvedAgain([err |-> "HomeDir", mounts |-> << >>, fs |-> fs, events |-> << >>])
        ELSE ResolvedAgain(ResolveLoop(resolved, imageSHA, ResolveStart(fs), ok))
    /\ UNCHANGED << goCfg, runs, shaOut, args, isTerm, sandbox, archive, buildVars, prepVars,
                    deferred,
                    pipeVars, untarLog, cmdArgs, imageSHA, midx, child, exitStatus,
                    releases >>

\* SpecResolveTwice: resolveMounts called on a list and then on its result
NextResolveTwice == ResolveBegin \/ ResolveMount \/ ResolveDone \/ ResolveAgain

SpecResolveTwice == InitResolve /\ [][NextResolveTwice]_vars

SpecResolve == InitResolve /\ [][NextResolve]_vars

\* the image stores buildImage may find: empty, holding the image of the
\* example repository at c1, holding an image of another repository
Stores ==
    { {},
      { ImageTag(RepoExample, <<"c1">>) },
      { ImageTag(RepoOther, <<"c2">>), ImageTag(RepoScp, <<"c1">>) } }

\* SpecBuild: buildImage called up to MaxBuilds times with one build
\* section, against one remote head
InitBuild ==
    /\ script = Script(EmptyStr, EmptyStr, << >>, << >>)
    /\ goCfg = NilGo
    /\ runs = 1
    /\ shaOut = EmptyStr
    /\ args = << >>
    /\ isTerm = FALSE
    /\ sandbox = "docker"
    /\ archive = << >>
    /\ pc = "b_head"
    /\ InitLocals
    /\ build \in BuildConfigs
    /\ remoteOut \in RemoteOuts
    /\ store \in Stores
    /\ imageTag = EmptyStr
    /\ built = << >>

NextBuild == BuildImage \/ BuildAgain

SpecBuild == InitBuild /\ [][NextBuild]_vars

\* ------------------------------------------------------------------------
\* run and runGo: the dispatch on the script's sections
\* ------------------------------------------------------------------------
GoPkg == <<"example.com", SLASH, "tool">>
GoConfigs ==
    { NilGo, GoConfig(EmptyStr, EmptyStr), GoConfig(EmptyStr, <<"v1">>),
      GoConfig(GoPkg, EmptyStr), GoConfig(GoPkg, <<"v1">>) }

GolangImage == <<"golang:latest">>

\* fmt.Sprintf("%s@%s", goPackage, version) when a version is given
GoTarget(g) == IF g.version # EmptyStr THEN g.run \o <<"@">> \o g.version ELSE g.run

\* run after the script is parsed: an image goes to runDocker, a go section
\* with mounts is turned into a run of golang:latest, a go section without
\* mounts goes to runGo
RunScript ==
    /\ pc = "run"
    /\ IF script.image # EmptyStr
       THEN /\ pc' = "d_run"
            /\ UNCHANGED << script, args, retErr >>
       ELSE IF ~goCfg.nil
       THEN IF Len(script.mounts) > 0
            THEN /\ script' = [script EXCEPT !.image = GolangImage]
                 /\ args' = << <<"go">>, <<"run">>, GoTarget(goCfg) >> \o args
                 /\ pc' = "d_run"
                 /\ UNCHANGED retErr
            ELSE /\ pc' = "g_go"
                 /\ UNCHANGED << script, args, retErr >>
       ELSE /\ retErr' = "ConfigMissing"
            /\ pc' = "main"
            /\ UNCHANGED << script, args >>
    /\ UNCHANGED << goCfg, runs, shaOut, isTerm, sandbox, archive, buildVars, fs, prepVars,
                    deferred,
                    pipeVars, untarLog, dockerVars, child, calls, exitStatus, releases >>

\* runGo: the package is required, then `go run target args...` is run
RunGo ==
    /\ pc = "g_go"
    /\ IF goCfg.run = EmptyStr
       THEN /\ retErr' = "GoRunMissing"
            /\ pc' = "main"
            /\ UNCHANGED << child, calls, exitStatus >>
       ELSE \E o \in Outcomes :
            /\ child' = [path |-> <<"go">>,
                         args |-> << <<"run">>, GoTarget(goCfg) >> \o args,
                         root |-> EmptyStr, dir |-> EmptyStr,
                         outcome |-> o.kind, code |-> o.code]
            /\ calls' = Append(calls, "launch")
            /\ IF o.kind = "exited" /\ o.code = 0
               THEN /\ DockerReturn("none")
                    /\ UNCHANGED exitStatus
               ELSE IF o.kind \in {"exited", "signaled"}
               THEN /\ OsExit(ExitErrorCode(o))
                    /\ UNCHANGED retErr
               ELSE /\ DockerReturn("ChildStart")
                    /\ UNCHANGED exitStatus
    /\ UNCHANGED << inputVars, buildVars, fs, prepVars, deferred, pipeVars, untarLog,
                    dockerVars, releases >>

\* the mounts of the scripts run dispatches
GoMountLists ==
    { << >>,
      << Mount(<<SLASH, "m">>, EmptyStr) >>,
      << Mount(<<"{cacheDir}", SLASH, "py">>, <<SLASH, "c">>) >>,
      << Mount(GitRootToken, EmptyStr) >> }

\* SpecRun: run called on any script with or without an image, a go section
\* and mounts
InitRun ==
    /\ script \in { Script(i, EmptyStr, m, << >>) : i \in {EmptyStr, ImgOK}, m \in GoMountLists }
    /\ goCfg \in GoConfigs
    /\ runs = 1
    /\ shaOut = EmptyStr
    /\ args \in { << >>, << <<"p">> >> }
    /\ isTerm \in BOOLEAN
    /\ sandbox = "docker"
    /\ archive = << >>
    /\ pc = "run"
    /\ InitLocals
    /\ NoBuild

NextRun == RunScript \/ RunGo \/ DockerRun \/ Main

SpecRun == InitRun /\ [][NextRun]_vars

\* ------------------------------------------------------------------------
\* getImageSHA called alone
\* ------------------------------------------------------------------------
\* what the query may have printed: any text of at most MaxOut pieces
ShaAtoms == {"sha256:", "D", "\n", " "}

\* getImageSHAFn(image) and the caller getting its two results
LookupDigest ==
    /\ pc = "s_call"
    /\ calls' = Append(calls, "imagesha")
    /\ \E ok \in BOOLEAN :
        /\ imageSHA' = GetImageSHA(ok, shaOut).sha
        /\ retErr' = GetImageSHA(ok, shaOut).err
    /\ pc' = "s_ret"
    /\ UNCHANGED << inputVars, buildVars, fs, prepVars, deferred, pipeVars, untarLog,
                    cmdArgs, resolved, midx, child, exitStatus, releases >>

\* SpecSHA: getImageSHA called on an image whose query prints any text
InitSHA ==
    /\ script = Script(ImgOK, EmptyStr, << >>, << >>)
    /\ goCfg = NilGo
    /\ runs = 1
    /\ shaOut \in SeqsUpTo(ShaAtoms, MaxOut)
    /\ args = << >>
    /\ isTerm = FALSE
    /\ sandbox = "docker"
    /\ archive = << >>
    /\ pc = "s_call"
    /\ InitLocals
    /\ NoBuild

NextSHA == LookupDigest

SpecSHA == InitSHA /\ [][NextSHA]_vars

\* ------------------------------------------------------------------------
\* runs of the program one after the other on one disk
\* ------------------------------------------------------------------------
\* <user-cache-root>/clix/cache
CacheRoot == Join(Join(UserCache, <<"clix">>), <<"cache">>)

\* the scripts of the runs: no mount, a cache mount, a cache mount before a
\* mount that may fail to resolve
RunsScripts ==
    { Script(ImgOK, <<SLASH, "h">>, m, << >>) :
        m \in { << >>,
                << Mount(<<"{cacheDir}", SLASH, "py">>, <<SLASH, "c">>) >>,
                << Mount(<<"$", "{cacheDir}">>, <<SLASH, "c">>),
                   Mount(GitRootToken, EmptyStr) >> } }

\* the streams of the runs: a file, and a link to the cache directory of
\* digest D followed by a file below the link
RunsArchives ==
    { << Header(<<"x">>, "reg", EmptyStr) >>,
      << Header(<<"l">>, "symlink", CacheDirFor(<<"D">>)),
         Header(<<"l", SLASH, "x">>, "reg", EmptyStr) >> }

\* the process has exited and the program is started again, on the disk as
\* the runs before have left it
RunAgain ==
    /\ pc = "exited"
    /\ runs < MaxRuns
    /\ runs' = runs + 1
    /\ \E s \in RunsScripts, b \in {"docker", "chroot"}, a \in RunsArchives \cup {<< >>} :
        /\ (b = "docker") <=> (a = << >>)
        /\ script' = s
        /\ sandbox' = b
        /\ archive' = a
        /\ pc' = IF b = "chroot" THEN "c_run" ELSE "d_run"
    /\ tmpDir' = EmptyStr
    /\ realRoot' = EmptyStr
    /\ cleanup' = NilCleanup
    /\ prepErr' = "none"
    /\ deferred' = FALSE
    /\ ppc' = "idle"
    /\ pidx' = 1
    /\ pipe' = OpenPipe
    /\ untarLog' = << >>
    /\ cmdArgs' = << >>
    /\ imageSHA' = EmptyStr
    /\ resolved' = << >>
    /\ midx' = 1
    /\ child' = NoChild
    /\ calls' = << >>
    /\ retErr' = "none"
    /\ exitStatus' = -1
    /\ releases' = 0
    /\ UNCHANGED << goCfg, shaOut, args, isTerm, fs, buildVars >>

\* SpecRuns: at most MaxRuns runs, docker and chroot, on one disk
InitRuns ==
    /\ script \in RunsScripts
    /\ goCfg = NilGo
    /\ runs = 1
    /\ shaOut = EmptyStr
    /\ args = << >>
    /\ isTerm = FALSE
    /\ sandbox \in {"docker", "chroot"}
    /\ archive \in RunsArchives \cup {<< >>}
    /\ (sandbox = "docker") <=> (archive = << >>)
    /\ pc = IF sandbox = "chroot" THEN "c_run" ELSE "d_run"
    /\ InitLocals
    /\ NoBuild

NextRuns == ChrootRun \/ DockerRun \/ Main \/ RunAgain

SpecRuns == InitRuns /\ [][NextRuns]_vars

\* SpecPrepareLive: SpecPrepare with the export goroutine scheduled: it goes
\* on whenever it can offer a chunk, complete a write or finish
SpecPrepareLive ==
    /\ InitPrepare
    /\ [][NextPrepare]_vars
    /\ WF_vars(ExportWrite)
    /\ WF_vars(ExportWritten)
    /\ WF_vars(ExportFinish)

\* ------------------------------------------------------------------------
\* Claims
\* ------------------------------------------------------------------------
\* C1: every tar entry untar processes whose joined path is neither the
\* destination nor below it (by path components) is answered with the
\* path-traversal error and causes no write to the disk.
C1_EscapingEntryRejected ==
    \A i \in 1..Len(untarLog) :
        ~Within(untarLog[i].path, tmpDir)
            => /\ untarLog[i].err = "PathTraversal"
               /\ untarLog[i].writes = {}


\* C2: once prepareRootFS has handed ChrootSandbox.Run an owned temporary
\* root, that directory is gone from the disk when the process has finished,
\* whatever the outcome of the run.
C2_OwnedRootDeletedAtExit ==
    (pc = "exited" /\ cleanup.kind = "removeAll")
        => \A e \in fs : ~Within(e.path, cleanup.dir)

\* the operations of prepareRootFS
ProvisioningCalls == {"stat", "pull", "mkdtemp"}
Provisioned == \E i \in 1..Len(calls) : calls[i] \in ProvisioningCalls
Launched == \E i \in 1..Len(calls) : calls[i] = "launch"
Finished == pc \in {"main", "exited"}

\* C3: a chroot run of a script (with an image) that declares a mount
\* never calls prepareRootFS (no stat, no pull, no temporary directory) and
\* fails with the unsupported-feature error.
C3_MountsRefusedBeforeProvisioning ==
    (sandbox = "chroot" /\ Len(script.mounts) > 0 /\ script.image # EmptyStr)
        => /\ ~Provisioned
           /\ Finished => retErr = "UnsupportedMounts"

\* C4: in both variants, a child that exits with a non-zero status c ends
\* the whole process with status c and Run returns no error value; after a
\* child that exits 0 Run returns nil; when the child cannot be started Run
\* returns an error value and does not end the process itself.
C4_ExitStatusPropagation ==
    /\ (child.outcome = "exited" /\ child.code # 0)
            => (pc = "exited" /\ exitStatus = child.code /\ retErr = "none")
    /\ (child.outcome = "exited" /\ child.code = 0)
            => (retErr = "none" /\ (pc = "main" \/ (pc = "exited" /\ exitStatus = 0)))
    /\ (child.outcome = "startfail")
            => (retErr = "ChildStart" /\ (pc = "main" \/ (pc = "exited" /\ exitStatus = 1)))

C4_Witness ==
    /\ sandbox = "chroot"
    /\ child.outcome = "exited"
    /\ child.code = 3
    /\ exitStatus = 3

\* the steps of a run that report an error, seen where they happen
DigestFailed == sandbox = "docker" /\ NeedsSHA(script.mounts) /\ imageSHA = EmptyStr
                    /\ pc \notin {"d_run"}
ExtractionFailed == \E i \in 1..Len(untarLog) : untarLog[i].err # "none"
ProvisioningFailed == prepErr # "none"
MissingRootFailure == sandbox = "chroot" /\ script.image = EmptyStr
UnsupportedFailure == sandbox = "chroot" /\ (Len(script.mounts) > 0 \/ Len(script.env) > 0)
StartFailed == child.outcome = "startfail"
ResolveFailed == sandbox = "docker" /\ Finished /\ ~Launched /\ child = NoChild

SetupFailure ==
    \/ DigestFailed
    \/ ExtractionFailed
    \/ ProvisioningFailed
    \/ MissingRootFailure
    \/ UnsupportedFailure
    \/ StartFailed
    \/ ResolveFailed

C6_ArgumentVector ==
    (pc = "d_exec") =>
        LET t == IF isTerm THEN 1 ELSE 0
            n == Len(resolved)
            m == Len(script.env)
            k == IF script.entrypoint # EmptyStr THEN 2 ELSE 0
            vAt == 2 + t
            eAt == vAt + 2 * n
            wAt == eAt + 2 * m
            iAt == wAt + 2 + k
        IN  /\ Len(cmdArgs) = iAt + 1 + Len(args)
            /\ cmdArgs[1] = <<"run">>
            /\ cmdArgs[2] = <<"-i">>
            /\ isTerm => cmdArgs[3] = <<"-t">>
            /\ n = Len(script.mounts)
            /\ \A i \in 1..n :
                /\ cmdArgs[vAt + 2 * i - 1] = <<"-v">>
                /\ cmdArgs[vAt + 2 * i]
                        = resolved[i].hostPath \o <<":">> \o resolved[i].sandboxPath
            /\ \A i \in 1..m :
                /\ cmdArgs[eAt + 2 * i - 1] = <<"-e">>
                /\ cmdArgs[eAt + 2 * i]
                        = script.env[i].name \o <<"=">> \o script.env[i].value
            /\ cmdArgs[wAt + 1] = <<"-w">>
            /\ cmdArgs[wAt + 2] = Cwd
            /\ (k = 2) => /\ cmdArgs[wAt + 3] = <<"--entrypoint">>
                          /\ cmdArgs[wAt + 4] = script.entrypoint
            /\ cmdArgs[iAt + 1] = script.image
            /\ \A i \in 1..Len(args) : cmdArgs[iAt + 1 + i] = args[i]
            /\ child.args = cmdArgs

C6_Witness ==
    /\ pc = "d_exec"
    /\ isTerm
    /\ Len(resolved) = 2
    /\ Len(script.env) = 2
    /\ script.entrypoint # EmptyStr
    /\ Len(args) = 2

\* C7: a chroot run of a script (with an image and a command) that declares
\* a mount or an environment variable never launches the child and Run
\* returns the unsupported-feature error.
C7_UnsupportedNeverLaunches ==
    (/\ sandbox = "chroot"
     /\ Len(script.mounts) > 0 \/ Len(script.env) > 0
     /\ script.image # EmptyStr
     /\ script.entrypoint # EmptyStr \/ Len(args) > 0)
        => /\ ~Launched
           /\ Finished => retErr \in {"UnsupportedMounts", "UnsupportedEnv"}

\* C8: a chroot run with an empty image fails with the missing-root error
\* before any provisioning step (no stat, no pull, no temporary directory,
\* the disk untouched) and before any child is launched.
C8_EmptyImageRefused ==
    (sandbox = "chroot" /\ script.image = EmptyStr)
        => /\ ~Provisioned
           /\ ~Launched
           /\ child = NoChild
           /\ fs = InitialDisk \cup {DirAt(Cwd)}
           /\ pc # "c_run" => (Finished /\ retErr = "MissingRoot")

C8_Witness ==
    /\ sandbox = "chroot"
    /\ script.image = EmptyStr
    /\ pc = "exited"
    /\ retErr = "MissingRoot"

\* C9: prepareRootFS on a reference that names an existing local directory
\* returns that path, pulls nothing and creates no temporary directory, and
\* however often the release function it returned is invoked, the directory
\* and its contents stay in place.
C9_BorrowedRootKept ==
    (StatIsDir(InitialDisk, script.image) /\ pc = "p_ret")
        => /\ prepErr = "none"
           /\ realRoot = script.image
           /\ \A i \in 1..Len(calls) : calls[i] \notin {"pull", "mkdtemp", "removeall"}
           /\ tmpDir = EmptyStr
           /\ { e \in fs : Within(e.path, script.image) }
                    = { e \in InitialDisk : Within(e.path, script.image) }
           /\ fs = InitialDisk \cup {DirAt(Cwd)}

C9_Witness ==
    /\ script.image = LocalDir
    /\ pc = "p_ret"
    /\ releases = MaxRelease
    /\ FileAt(LocalDirFile) \in fs

\* C10: when prepareRootFS returns an error, no temporary root directory
\* made by that call, nor anything below it, is on the disk.
C10_NoTempRootOnError ==
    (pc = "p_ret" /\ prepErr # "none")
        => \A e \in fs : ~Within(e.path, TmpDir)

C10_Witness ==
    /\ pc = "p_ret"
    /\ prepErr = "PathTraversal"
    /\ \E i \in 1..Len(untarLog) : untarLog[i].writes # {}

\* the errors of resolveMounts that stem from the environment and not from
\* the mount list: os.Getwd, os.UserHomeDir, the git command
EnvironmentFailed == retErr \in {"Getwd", "HomeDir", "GitRoot"}

\* the mount of the python byte code cache, as scripts declare it
PyCacheMount == Mount(<<"{cacheDir}", SLASH, "py">>, <<SLASH, "c">>)

WholeTokensReplaced(h, dir) ==
    ReplaceAll(ReplaceAll(h, CacheTokenNew, dir), CacheTokenOld, dir)

\* C12: with a digest D, a host path carrying the cache directory token in
\* either spelling resolves to the declared path with every whole token
\* replaced by <user cache root>/clix/cache/D, so that nothing of the token,
\* the "$" of "${cacheDir}" included, is left: ${cacheDir}/py resolves to
\* <user cache root>/clix/cache/D/py
C12_WholeTokenReplaced ==
    (pc = "r_ret" /\ imageSHA = <<"D">>) =>
        \A i \in 1..Len(script.mounts) :
            UsesCacheToken(script.mounts[i].hostPath) =>
                /\ resolved[i].hostPath =
                      WholeTokensReplaced(script.mounts[i].hostPath,
                          <<SLASH, "h", SLASH, "u", SLASH, ".cache", SLASH, "clix",
                            SLASH, "cache", SLASH, "D">>)
                /\ \A k \in 1..Len(resolved[i].hostPath) :
                      resolved[i].hostPath[k] \notin {"$", "{cacheDir}"}

\* an absolute path
IsAbsolute(p) == p # EmptyStr /\ p[1] = SLASH

\* a path without symbolic tokens: no cache directory token in either
\* spelling, not the git root sentinel, no leading ~
TokenFree(p) ==
    /\ ~UsesCacheToken(p)
    /\ p # GitRootToken
    /\ ~(p # EmptyStr /\ p[1] = TILDE)

\* C13: after a successful resolveMounts every returned mount has a host
\* path and a sandbox path that are absolute and free of symbolic tokens,
\* whatever the input list, relative declared host paths included
C13_AbsoluteTokenFree ==
    pc = "r_ret" =>
        \A i \in 1..Len(resolved) :
            /\ IsAbsolute(resolved[i].hostPath)
            /\ IsAbsolute(resolved[i].sandboxPath)
            /\ TokenFree(resolved[i].hostPath)
            /\ TokenFree(resolved[i].sandboxPath)

\* the positions of the external operation op in the log
CallsOf(op) == { i \in 1..Len(calls) : calls[i] = op }

\* C14: in buildDockerArgs the digest lookup is made exactly when some
\* declared host path contains the cache directory token, then at most once
\* and before any mount is resolved; when the lookup fails buildDockerArgs
\* returns its error, no mount is resolved, no cache directory is made and
\* no command is built
C14_LazyDigest ==
    sandbox = "docker" =>
        /\ Cardinality(CallsOf("imagesha")) <= 1
        /\ pc # "d_run" => (CallsOf("imagesha") # {} <=> NeedsSHA(script.mounts))
        /\ CallsOf("imagesha") # {} => calls[1] = "imagesha"
        /\ pc = "d_run" => (resolved = << >> /\ midx = 1 /\ calls = << >>)
        /\ (CallsOf("imagesha") # {} /\ imageSHA = EmptyStr) =>
              /\ pc \in {"main", "exited"}
              /\ retErr \in {"ImageSHA", "ImageNotFound"}
              /\ resolved = << >>
              /\ midx = 1
              /\ calls = <<"imagesha">>
              /\ fs = InitialDisk \cup {DirAt(Cwd)}
              /\ child = NoChild

\* a script with the token whose lookup found no image: the run has ended
\* with that error
C14_Witness ==
    /\ sandbox = "docker"
    /\ NeedsSHA(script.mounts)
    /\ pc = "exited"
    /\ retErr = "ImageNotFound"
    /\ exitStatus = 1

\* what resolveMounts makes of the single mount m in the present state, all
\* lookups succeeding
ResolutionOf(m) == ResolveOne(m, imageSHA, fs, TRUE, TRUE, TRUE).mount

\* C15: resolveMounts keeps one resolved mount per input mount handled, and a
\* successful call returns a list as long as its input whose i-th element is
\* the resolution of the i-th input mount: nothing is dropped, reordered,
\* merged or deduplicated, also when two mounts get the same sandbox path
C15_OrderPreserved ==
    /\ pc = "d_resolve" => Len(resolved) = midx - 1
    /\ pc = "r_ret" =>
          /\ Len(resolved) = Len(script.mounts)
          /\ \A i \in 1..Len(script.mounts) :
                resolved[i] = ResolutionOf(script.mounts[i])

\* a successful call on two different mounts that resolve to the same
\* sandbox path
C15_Witness ==
    /\ pc = "r_ret"
    /\ Len(script.mounts) = 2
    /\ script.mounts[1] # script.mounts[2]
    /\ Len(resolved) = 2
    /\ resolved[1].sandboxPath = resolved[2].sandboxPath

\* the text s begins with "~/"
LeadingHome(s) == Len(s) >= 2 /\ s[1] = TILDE /\ s[2] = SLASH

\* C16: in a successful resolveMounts a host path that is exactly ~ becomes
\* the user's home directory and one starting with ~/ the home directory
\* joined with the remainder; a sandbox path that is exactly ~ becomes /root
\* and one starting with ~/ becomes /root/ followed by the remainder; a path
\* whose ~ is not its leading component is left as it is on both sides
C16_HomeExpansion ==
    pc = "r_ret" =>
        \A i \in 1..Len(script.mounts) :
            /\ script.mounts[i].hostPath = <<TILDE>> =>
                  resolved[i].hostPath = <<SLASH, "h", SLASH, "u">>
            /\ LeadingHome(script.mounts[i].hostPath) =>
                  resolved[i].hostPath =
                      <<SLASH, "h", SLASH, "u", SLASH>>
                          \o SubSeq(script.mounts[i].hostPath, 3,
                                    Len(script.mounts[i].hostPath))
            /\ script.mounts[i].sandboxPath = <<TILDE>> =>
                  resolved[i].sandboxPath = <<SLASH, "root">>
            /\ LeadingHome(script.mounts[i].sandboxPath) =>
                  resolved[i].sandboxPath =
                      <<SLASH, "root", SLASH>>
                          \o SubSeq(script.mounts[i].sandboxPath, 3,
                                    Len(script.mounts[i].sandboxPath))
            /\ script.mounts[i].hostPath = <<SLASH, "a", SLASH, TILDE>> =>
                  resolved[i].hostPath = <<SLASH, "a", SLASH, TILDE>>
            /\ script.mounts[i].sandboxPath = <<SLASH, "b", SLASH, TILDE>> =>
                  resolved[i].sandboxPath = <<SLASH, "b", SLASH, TILDE>>

\* a successful call on a bare ~ host path with a ~/ sandbox path, and on a
\* host path with an inner ~
C16_Witness ==
    /\ pc = "r_ret"
    /\ Len(script.mounts) = 2
    /\ script.mounts[1] = Mount(<<TILDE>>, <<TILDE, SLASH, "y">>)
    /\ script.mounts[2] = Mount(<<SLASH, "a", SLASH, TILDE>>, <<TILDE>>)
    /\ resolved[1] = Mount(<<SLASH, "h", SLASH, "u">>, <<SLASH, "root", SLASH, "y">>)

\* a declared sandbox path after its own home expansion, the host path
\* playing no part
SandboxPathAlone(sp) ==
    IF sp = <<TILDE>> THEN <<SLASH, "root">>
    ELSE IF LeadingHome(sp) THEN <<SLASH, "root", SLASH>> \o SubSeq(sp, 3, Len(sp))
    ELSE sp

\* C17: in a successful resolveMounts a mount declared without a sandbox path
\* gets its resolved host path (after token substitution and home
\* expansion) as sandbox path; a declared sandbox path is not changed by the
\* resolution of the host path; an absolute host path without tokens is
\* returned unchanged
C17_SandboxDefault ==
    pc = "r_ret" =>
        \A i \in 1..Len(script.mounts) :
            /\ script.mounts[i].sandboxPath = EmptyStr =>
                  resolved[i].sandboxPath = resolved[i].hostPath
            /\ script.mounts[i].sandboxPath # EmptyStr =>
                  resolved[i].sandboxPath = SandboxPathAlone(script.mounts[i].sandboxPath)
            /\ (IsAbsolute(script.mounts[i].hostPath) /\ TokenFree(script.mounts[i].hostPath)) =>
                  resolved[i].hostPath = script.mounts[i].hostPath

\* a successful call on ~/x declared without a sandbox path, next to a mount
\* with an absolute host path and a sandbox path of its own
C17_Witness ==
    /\ pc = "r_ret"
    /\ Len(script.mounts) = 2
    /\ script.mounts[1] = Mount(<<TILDE, SLASH, "x">>, EmptyStr)
    /\ script.mounts[2] = Mount(<<SLASH, "m">>, <<SLASH, "n">>)
    /\ resolved[1].sandboxPath = <<SLASH, "h", SLASH, "u", SLASH, "x">>
    /\ resolved[2] = script.mounts[2]

\* the clone and build commands among the operations ops, in order
CloneAndBuild(ops) == SelectSeq(ops, LAMBDA o : o \in {"clone", "build"})

UntarFailedOnEntry ==
    /\ pc = "p_ret"
    /\ untarLog # << >>
    /\ untarLog[Len(untarLog)].err # "none"
    /\ prepErr = untarLog[Len(untarLog)].err

\* C19: when untar fails before the stream is exhausted, the failure reaches
\* the export goroutine: its pending or next write to the pipe is released
\* and the goroutine terminates, so that no producer stays blocked after
\* prepareRootFS has returned its error
C19_ProducerReleased == UntarFailedOnEntry ~> (ppc = "done")

\* C20: when crane.Export fails, before or after writing entries, the pipe
\* is closed with the error, the reader finds no data and no clean end of
\* stream, and prepareRootFS returns an error, no root and no release
\* function, the temporary directory being removed; a root is returned only
\* for a stream that was exported to its end and extracted entry by entry
C20_ExportFailurePropagates ==
    /\ pipe.wclosed = "err" =>
          /\ ppc = "done"
          /\ pipe.buf = NoHeader
          /\ pc \in {"untar", "p_ret"}
          /\ pc = "p_ret" =>
                /\ prepErr # "none"
                /\ realRoot = EmptyStr
                /\ cleanup = NilCleanup
                /\ ~Exists(fs, TmpDir)
                /\ untarLog # << >> =>
                      (untarLog[Len(untarLog)].err = "none" => prepErr = "ExportStream")
    /\ (pc = "p_ret" /\ prepErr = "none" /\ tmpDir # EmptyStr) =>
          /\ pipe.wclosed = "eof"
          /\ pidx = Len(archive) + 1
          /\ Len(untarLog) = Len(archive)
          /\ \A i \in 1..Len(archive) : untarLog[i].header = archive[i]

\* crane.Export failed after one entry of two had been written and
\* extracted, and prepareRootFS has returned the error
C20_Witness ==
    /\ pipe.wclosed = "err"
    /\ pc = "p_ret"
    /\ Len(archive) = 2
    /\ pidx = 2
    /\ Len(untarLog) = 1
    /\ untarLog[1].err = "none"
    /\ prepErr = "ExportStream"
    /\ ~Exists(fs, TmpDir)

\* C21: every failing filesystem operation during the extraction of an entry
\* (making a directory, creating the file, streaming its contents, applying
\* the permission bits, closing the file, making the link) makes untar stop
\* at that entry with an error; untar returns nil only if every operation
\* of every entry succeeded
C21_EveryIOFailureReported ==
    /\ \A i \in 1..Len(untarLog) :
          untarLog[i].iofail # "none" => untarLog[i].err # "none"
    /\ (pc = "p_ret" /\ prepErr = "none") =>
          \A i \in 1..Len(untarLog) : untarLog[i].iofail = "none"

\* the entry's joined path lies in dest by its components
LexicallyInside(h) == Within(Clean(Join(TmpDir, h.name)), TmpDir)

\* C22: whatever the archive and the outcome, everything untar created or
\* wrote lies inside dest on the real filesystem, also when an earlier entry
\* made a symbolic link inside dest that points outside and a later entry's
\* recorded path passes through that link (stated for the entries whose
\* recorded path stays in dest by its components)
C22_WritesStayInside ==
    \A i \in 1..Len(untarLog) :
        LexicallyInside(untarLog[i].header) =>
            \A w \in untarLog[i].writes : Within(w, TmpDir)

\* the host path h has the cache directory token in its deprecated
\* spelling: "{cacheDir}" not preceded by "$"
UsesDeprecatedToken(h) ==
    \E k \in 1..Len(h) : h[k] = "{cacheDir}" /\ (k = 1 \/ h[k - 1] # "$")

\* the mounts resolveMounts has gone through with the token so spelled
DeprecatedHandled ==
    { i \in 1..Len(script.mounts) :
          /\ i < midx \/ (i = midx /\ pc = "main" /\ retErr \notin {"Getwd", "HomeDir"})
          /\ UsesDeprecatedToken(script.mounts[i].hostPath) }

\* C24: resolveMounts prints the deprecation warning for a mount exactly
\* when its host path uses the deprecated spelling {cacheDir}, the token not
\* preceded by "$"; a list that uses only ${cacheDir} gets no warning
C24_WarningOnlyForDeprecated ==
    Cardinality(CallsOf("warn")) = Cardinality(DeprecatedHandled)

\* C25: ChrootSandbox.Run runs the entrypoint with all user arguments, in
\* order, when there is an entrypoint; the first user argument with the
\* remaining ones when there is none; with neither it returns an error and
\* launches nothing; every child launched has the provisioned root as its
\* root and "/" as its working directory
C25_CommandSelection ==
    sandbox = "chroot" =>
        /\ child # NoChild =>
              /\ script.entrypoint # EmptyStr =>
                    (child.path = script.entrypoint /\ child.args = args)
              /\ script.entrypoint = EmptyStr =>
                    /\ args # << >>
                    /\ child.path = args[1]
                    /\ child.args = SubSeq(args, 2, Len(args))
              /\ child.root = realRoot
              /\ realRoot # EmptyStr
              /\ prepErr = "none"
              /\ child.dir = <<SLASH>>
        /\ Launched => child.outcome # "none"
        /\ (script.entrypoint = EmptyStr /\ args = << >>) =>
              /\ child = NoChild
              /\ ~Launched
              /\ pc \in {"main", "exited"} => retErr # "none"

\* a child launched from an entrypoint with two user arguments in a root
\* extracted from an image
C25_Witness ==
    /\ sandbox = "chroot"
    /\ Launched
    /\ script.entrypoint = <<SLASH, "h">>
    /\ args = << <<"p">>, <<"q">> >>
    /\ child.args = args
    /\ child.root = TmpDir

\* the mounts resolveMounts has gone through whose host path is the
\* sentinel
SentinelHandled ==
    { i \in 1..Len(script.mounts) :
          /\ i < midx \/ (i = midx /\ pc = "main" /\ retErr = "GitRoot")
          /\ script.mounts[i].hostPath = GitRootToken }

\* C27: resolveMounts replaces a host path by the top-level directory of the
\* git repository exactly when it is the sentinel git.repoRoot(cwd); when
\* the lookup fails it returns an error and no list; the lookup is made
\* once per sentinel mount and never without one
C27_GitRootSentinel ==
    /\ Cardinality(CallsOf("gitroot")) = Cardinality(SentinelHandled)
    /\ retErr = "GitRoot" =>
          /\ pc = "main"
          /\ resolved = << >>
          /\ script.mounts[midx].hostPath = GitRootToken
    /\ pc = "r_ret" =>
          \A i \in 1..Len(script.mounts) :
              /\ script.mounts[i].hostPath = GitRootToken =>
                    resolved[i].hostPath = <<SLASH, "g">>
              /\ script.mounts[i].hostPath # GitRootToken =>
                    ~Contains(resolved[i].hostPath, <<SLASH, "g">>)
              /\ script.mounts[i].hostPath = GitRootToken \o <<SLASH, "s">> =>
                    resolved[i].hostPath = script.mounts[i].hostPath

\* the lookup failed for a sentinel mount that came second, after a mount
\* that had been resolved
C27_Witness ==
    /\ retErr = "GitRoot"
    /\ midx = 2
    /\ resolved = << >>
    /\ CallsOf("gitroot") = {1}

\* the external operations of the phases of a run
ResolvingCalls == {"imagesha", "warn", "mkcache", "gitroot"}

\* the ways a run ends
Succeeded ==
    retErr = "none" /\ exitStatus = 0 /\ child.outcome = "exited" /\ child.code = 0
FailedExit ==
    /\ retErr = "none"
    /\ child.outcome \in {"exited", "signaled"}
    /\ child.code # 0
    /\ exitStatus = child.code % 256
SetupError == retErr # "none" /\ exitStatus = 1

\* what holds of the operations made so far in every state of a run
PhasesInOrder ==
    /\ \A op \in {"imagesha", "stat", "pull", "mkdtemp", "launch"} :
          Cardinality(CallsOf(op)) <= 1
    /\ sandbox = "docker" => ~Provisioned
    /\ sandbox = "chroot" => \A i \in 1..Len(calls) : calls[i] \notin ResolvingCalls
    /\ \A i \in CallsOf("launch") :
          \A j \in 1..Len(calls) :
              calls[j] \in ResolvingCalls \cup ProvisioningCalls => j < i
    /\ retErr # "none" => pc \in {"main", "exited"}
    /\ prepErr # "none" => (pc \in {"p_ret", "main", "exited"} /\ ~Launched)
    /\ pc = "exited" =>
          \/ Succeeded /\ ~FailedExit /\ ~SetupError
          \/ FailedExit /\ ~Succeeded /\ ~SetupError
          \/ SetupError /\ ~Succeeded /\ ~FailedExit

\* once an operation has failed no further operation is made, nothing is
\* launched and the disk is left alone
NothingAfterFailure ==
    (retErr # "none" \/ prepErr # "none") =>
        (calls' = calls /\ child' = child /\ fs' = fs)

C26_DigestNeverEmpty ==
    pc = "s_ret" =>
        /\ calls = <<"imagesha">>
        /\ retErr = "none" =>
              (imageSHA # EmptyStr /\ ~HasPrefix(imageSHA, <<"sha256:">>))

\* C28: resolveMounts applied to a list it returned, with the same digest,
\* returns that list unchanged, unless the working directory or the home
\* directory can no longer be asked for
C28_ResolveIdempotent ==
    pc = "r_again" =>
        \/ retErr \in {"Getwd", "HomeDir"}
        \/ retErr = "none" /\ resolved = script.mounts

\* a list resolved from a cache directory token and the git root sentinel
\* went through resolveMounts a second time
C28_Witness ==
    /\ pc = "r_again"
    /\ retErr = "none"
    /\ Len(resolved) = 2
    /\ Cardinality(CallsOf("mkcache")) = 1
    /\ Cardinality(CallsOf("gitroot")) = 1
    /\ resolved = script.mounts

\* a script with a go section whose run field is empty and with no image
\* of its own
GoRunEmpty ==
    /\ ~goCfg.nil
    /\ goCfg.run = EmptyStr
    /\ script.image \in {EmptyStr, GolangImage}

\* C29: a script with a go section whose run field is empty and no image
\* launches no child and fails with the 'go.run missing' error, with or
\* without mounts
C29_GoRunMissing ==
    GoRunEmpty =>
        /\ ~Launched
        /\ Finished => retErr = "GoRunMissing"

\* what is on disk at or below <user-cache-root>/clix/cache
CacheTree(fsys) == { e \in fsys : Within(e.path, CacheRoot) }

\* no step takes anything out of the cache tree
CacheKept == CacheTree(fs) \subseteq CacheTree(fs')

\* what a step adds to the cache tree is the directory of the current
\* digest, with the directories above it
CacheOnlyDigestDir ==
    \A e \in CacheTree(fs') \ CacheTree(fs) :
        /\ e.kind = "dir"
        /\ imageSHA # EmptyStr
        /\ e.path \in AncestorsOrSelf(CacheDirFor(imageSHA))

\* C30: under any sequence of runs the cache tree only grows, and the only
\* thing a run does to it is to create the directory of the current digest
C30_CacheAdditive == [][CacheKept /\ CacheOnlyDigestDir]_vars
====
